---- MODULE Spec2Model ----
(***************************************************************************)
(* MediVault backend: the cache-store core (job queue and processor,       *)
(* sessions, rate limiters) as state machines.                             *)
(*                                                                         *)
(* Module layout of the repository (require paths):                        *)
(*   config/redis.js            the adapter, get/set/del/lpush/rpop/...    *)
(*   services/redisService.js   the service, built on the adapter          *)
(*   services/jobProcessor.js   require('./redisService')   -> the service *)
(*   middleware/rateLimiter.js  require('../services/redisService')        *)
(*   middleware/sessionManager  require('../services/redisService')        *)
(* The processor, the limiters and the session manager therefore call the  *)
(* SERVICE object; a method the service class does not define is undefined *)
(* there and calling it raises a TypeError at the call site.               *)
(***************************************************************************)
EXTENDS Integers, Sequences, FiniteSets, TLC

\* ------------------------------------------------------------------ bounds
MaxJobs == 2          \* client enqueueJob calls in one run (Spec)
RetryJobs == 2        \* client enqueueJob calls in one run (SpecRetry)
MaxTicks == 2         \* processJobs calls suspended at the same time (Spec)
CapTicks == 2         \* processJobs calls suspended at the same time (SpecCap)
CapJobs == 6          \* client enqueueJob calls in one run (SpecCap)
CapSettling == 1      \* jobs whose handlers settle within a run (SpecCap)
StopJobs == 2         \* client enqueueJob calls in one run (SpecStop)
StopTicks == 1        \* processJobs calls suspended at the same time (SpecStop)
DirectJobs == 2       \* client enqueueJob calls in one run (SpecDirect)
DirectTicks == 1      \* processJobs calls suspended at the same time (SpecDirect)

MaxSessionIds == 6    \* createSession calls in one run
SessStep == 1800      \* seconds the clock advances by in a session run
ExpiryIds == 2        \* createSession calls in one run (SpecExpiry)
ShortTtl == 900       \* a SESSION_TTL below the default, in seconds

MaxLimit == 3         \* largest limit passed to checkRateLimit
MaxWindow == 2        \* largest window passed to checkRateLimit, in seconds
MaxNow == 5           \* seconds a rate-limit run lasts
LimiterNow == 2       \* seconds a run of the limiter middlewares lasts
LimiterLimit == 2     \* largest limit the limiter middlewares are made with
LimiterWindow == 1    \* largest window the limiter middlewares are made with
MaxAdapterCalls == 3  \* commands the adapter hands to the client in a run
MaxAdapterValue == 2  \* values stored through the adapter: 1..MaxAdapterValue
AdapterTtl == 60      \* the ttl the adapter's set and expire are called with
NumCallers == 2       \* checkRateLimit calls that can be in progress at once
MaxRaceCalls == 6     \* checkRateLimit calls started in a run of overlapping calls
NumCreators == 2      \* createSession calls that can be in progress at once
RaceSessionIds == 6   \* session ids made in a run of overlapping createSession calls
PollJobs == 2         \* client enqueueJob calls in one run (SpecPoll)
PollTicks == 1        \* processJobs calls suspended at the same time (SpecPoll)
MaxRequestId == 2     \* session ids a request can carry: 1..MaxRequestId
RegisterJobs == 2     \* client enqueueJob calls in one run (SpecRegister)
RegisterTicks == 1    \* processJobs calls suspended at the same time (SpecRegister)
NumUpdaters == 2      \* updateSession calls that can be in progress at once
DestroyRaceIds == 2   \* createSession calls in one run (SpecDestroyRace)
LostJobs == 2         \* client enqueueJob calls in one run (SpecLost)
LostTicks == 1        \* processJobs calls suspended at the same time (SpecLost)
DrainJobs == 2        \* client enqueueJob calls in one run (SpecDrain)
DrainTicks == 1       \* processJobs calls suspended at the same time (SpecDrain)
OverlapJobs == 2      \* client enqueueJob calls in one run (SpecOverlap)
OverlapTicks == 2     \* processJobs calls suspended at the same time (SpecOverlap)
EquivJobs == 2        \* client enqueueJob calls in one run (SpecEquiv)
EquivTicks == 1       \* processJobs calls suspended at the same time (SpecEquiv)
ResetRaceCalls == 4   \* checkRateLimit calls started in a run (SpecRaceReset)

MaxPublish == 105     \* publishNotification calls in one run
DeliverJobs == 2      \* client enqueueJob calls in one run (SpecDeliver)
DeliverTicks == 1     \* processJobs calls suspended at the same time (SpecDeliver)
DeliverPublish == 3   \* dispatches of notification jobs in one run (SpecDeliver)

MaxRequests == 5      \* requests through the sliding-window limiter in one run
SlHorizon == 61       \* seconds a sliding-window run lasts

\* ------------------------------------------------------- program constants
maxAttempts == 3            \* enqueueJob: maxAttempts: 3
maxConcurrentJobs == 5      \* JobProcessor constructor
resultTtl == 3600           \* processJob: job_result ttl
maxSessions == 5            \* SessionManager: sessionConfig.maxSessions
maxNotifications == 100     \* publishNotification: notifications.length > 100
sessionTtl == 3600          \* SessionManager: sessionConfig.ttl, SESSION_TTL unset
updateTtl == 3600           \* RedisService.updateSession: ttl = 3600

\* for (const jobType of jobTypes) in processJobs
jobTypes == <<"document_processing", "ai_processing", "notification", "cleanup">>

JobTypeSet == {jobTypes[i] : i \in 1..Len(jobTypes)}

\* The methods the service class (services/redisService.js) defines. A call
\* redisService.m(...) made by the processor, a limiter or the session
\* manager with m outside this set is a call of undefined: a TypeError.
ServiceMethods ==
  {"connect", "disconnect", "createSession", "getSession", "updateSession",
   "deleteSession", "getUserSessions", "cacheDocument", "getCachedDocument",
   "cacheUser", "getCachedUser", "invalidateUserCache", "checkRateLimit",
   "resetRateLimit", "enqueueJob", "dequeueJob", "getQueueLength",
   "getQueueStats", "processJob", "publishNotification",
   "getUserNotifications", "trackEvent", "getEventStats", "healthCheck",
   "clearUserData", "getMemoryUsage"}

HasMethod(m) == m \in ServiceMethods

\* ---------------------------------------------------------------- helpers
None == [none |-> TRUE]

\* JSON.stringify / JSON.parse of the adapter: the store holds the text, the
\* caller gets the parsed value back; an empty reply is null.
Stringify(v) == <<"json", v>>

Parse(raw) == IF raw = None THEN None ELSE raw[2]

VARIABLES
  \* the cache store
  queue,          \* queue:<type>   list, index 1 is the left end
  jobResult,      \* job_result:<id>
  \* JobProcessor fields
  processors,     \* this.processors: job type -> the handler registered
  isProcessing,   \* this.isProcessing
  intervals,      \* the intervals setInterval made that are still scheduled
  processingIntervalId, \* this.processingIntervalId (NoInterval: undefined)
  activeJobs,     \* this.activeJobs
  \* suspended async calls
  ticks,          \* processJobs calls awaiting dequeueJob, by type index
  inflight,       \* processJob calls awaiting the handler or the re-enqueue
  stopPc,         \* a stopProcessing call: "idle", or "waiting" in its loop
  \* history (not program state)
  nClient,        \* client enqueueJob calls so far; the payload of the next
  returned,       \* payload -> id enqueueJob returned (NoId: not enqueued)
  outcomes,       \* payload -> handler outcomes, dispatch by dispatch
  arrival,        \* type -> ids waiting in the queue, in arrival order
  stopped,        \* stopProcessing has returned, startProcessing not called since
  lastPoll,       \* the latest processJobs call whose dequeue failed
  lost,           \* ids of the jobs whose processJob call ended in a throw
  \* the clock, in seconds (Date.now() / 1000)
  now,
  \* sessions in the cache store
  sessionKeys,    \* session:<id>, each with its expiry
  userSessions,   \* user_sessions:<userId>, a set of serialized ids
  \* history of the session calls
  nSess,          \* session ids made so far
  lastEvict,      \* the ids the latest evicting createSession removed
  configTtl,      \* SessionManager: this.sessionConfig.ttl
  lastOp,         \* the latest middleware, refresh, destroy or cleanup call
  \* fixed-window limiter: rate_limit:<identifier> and the call's arguments
  rateKeys,
  rlLimit,
  rlWindow,
  \* history of the checkRateLimit calls on the identifier
  admitted,       \* calls allowed since the counter key was created
  firstAccept,    \* when the counter key was created
  lastAccept,     \* when the latest allowed call was made
  lastCall,       \* the latest call: what it found, what it returned
  lastReq,        \* the latest request through a limiter middleware
  \* sliding-window limiter: <identifier>:requests, and the responses so far
  slKeys,
  slLog,
  \* notifications: user_notifications:<userId>, a list, and the calls so far
  notifs,         \* user -> the list, index 1 is the left end
  nPub,           \* publishNotification calls so far
  lastList,       \* what the latest getUserNotifications call gave
  \* the cache-store adapter (config/redis.js) called directly
  isConnected,    \* this.isConnected
  client,         \* what this.client holds: strings, hashes, lists, sets
  clientCalls,    \* commands handed to this.client so far
  lastAdapter,    \* the latest adapter call: the operation, whether it threw
  \* calls in progress side by side, each suspended at a store call
  callers,        \* checkRateLimit calls: where each is and what it read
  raceCalls,      \* checkRateLimit calls started so far
  overlapped,     \* a call made its read while another was past its own
  creators,       \* SessionManager.createSession calls: where each is
  updaters,       \* RedisService.updateSession calls: where each is
  \* a request whose session id is being resolved
  req,            \* its Authorization header, sessionId cookie, x-session-id
  resolved        \* what extractSessionId returned for it

stopVars == <<stopPc, stopped>>

intervalVars == <<intervals, processingIntervalId>>

jobVars == <<queue, jobResult, processors, isProcessing, intervalVars,
             activeJobs, ticks, inflight, nClient, returned, outcomes,
             arrival, stopVars, lastPoll, lost>>

sessVars == <<sessionKeys, userSessions, nSess, lastEvict, configTtl, lastOp>>

rateVars == <<rateKeys, rlLimit, rlWindow, admitted, firstAccept, lastAccept,
              lastCall, lastReq>>

slVars == <<slKeys, slLog>>

notifVars == <<notifs, nPub, lastList>>

adapterVars == <<isConnected, client, clientCalls, lastAdapter>>

raceVars == <<callers, raceCalls, overlapped, creators, updaters>>

reqVars == <<req, resolved>>

vars == <<jobVars, sessVars, rateVars, slVars, notifVars, adapterVars, raceVars,
          reqVars, now>>

notJobVars == <<sessVars, rateVars, slVars, notifVars, adapterVars, raceVars,
                reqVars, now>>

\* -------------------------------------------------------------- job ids
Max(a, b) == IF a > b THEN a ELSE b

Payloads ==
  1..Max(Max(Max(Max(Max(Max(MaxJobs, RetryJobs), CapJobs), StopJobs),
                 DirectJobs), PollJobs), Max(Max(Max(Max(RegisterJobs, LostJobs), DrainJobs), OverlapJobs),
             EquivJobs))

\* Job ids. crypto.randomUUID() yields an id nothing else refers to; which
\* one is immaterial, so the id made for payload p is <<p, g>> with g the
\* least generation not in use (the id returned to the client, the id now
\* waiting or in flight, and a stored result keep theirs).
Generations == 0..2

JobIds == Payloads \X Generations

NoId == <<0, 0>>

IdsInUse ==
  {returned[p] : p \in Payloads}
    \cup UNION {{Parse(queue[t][i]).id : i \in 1..Len(queue[t])} : t \in JobTypeSet}
    \cup {h.job.id : h \in inflight}
    \cup DOMAIN jobResult

randomUUID(p) ==
  <<p, CHOOSE g \in Generations :
         /\ <<p, g>> \notin IdsInUse
         /\ \A k \in Generations : k < g => <<p, k>> \in IdsInUse>>

\* ---------------------------------------------------- adapter: key/value
\* A keyspace is a function from the keys that exist to the stored text and
\* the second at which the store drops the key (NoExpiry: never).
NoExpiry == 0 - 1

\* get (config/redis.js): value ? JSON.parse(value) : null
getKey(space, k) == IF k \in DOMAIN space THEN Parse(space[k].text) ELSE None

setNoTtl(space, k, v, ttl, t) ==
  [x \in DOMAIN space \cup {k} |->
     IF x = k THEN [text |-> Stringify(v), exp |-> NoExpiry] ELSE space[x]]

\* set (config/redis.js): client.setEx(key, ttl, text) if (ttl), else
\* client.set(key, text); called at second t
set(space, k, v, ttl, t) ==
  [x \in DOMAIN space \cup {k} |->
     IF x = k
       THEN [text |-> Stringify(v), exp |-> IF ttl # 0 THEN t + ttl ELSE NoExpiry]
       ELSE space[x]]

\* del (config/redis.js)
delKey(space, k) == [x \in DOMAIN space \ {k} |-> space[x]]

\* what del returns: the number of keys it removed
delCount(space, k) == IF k \in DOMAIN space THEN 1 ELSE 0

\* the store drops the keys whose time to live has run out by second t
Expire(space, t) ==
  [x \in {k \in DOMAIN space : space[k].exp = NoExpiry \/ space[k].exp > t} |->
     space[x]]

\* ------------------------------------------------------- adapter: lists
rpush(list, value) == list \o <<Stringify(value)>>

\* lpush (config/redis.js): client.lPush(key, JSON.stringify(value))
lpush(list, value) == <<Stringify(value)>> \o list

\* rpop (config/redis.js): the value at the right end, parsed, or null
rpop(list) == IF list = <<>> THEN None ELSE Parse(list[Len(list)])

rpopLeaves(list) == list

\* the list after client.rPop
rpopRest(list) == IF list = <<>> THEN list ELSE SubSeq(list, 1, Len(list) - 1)

RemoveId(s, id) == SelectSeq(s, LAMBDA x : x # id)

\* ------------------------------------------------------------- enqueueJob
\* RedisService.enqueueJob(queueName, jobData, priority): the job pushed
NewJob(id, data, priority) ==
  [id |-> id, data |-> data, priority |-> priority, attempts |-> 0,
   maxAttempts |-> maxAttempts]

\* JobProcessor.enqueueJob -> RedisService.enqueueJob, by a client
EnqueueJob(max, types, prios) ==
  /\ nClient < max
  /\ \E t \in types, pr \in prios :
       LET p == nClient + 1
           id == randomUUID(p)
       IN /\ queue' = [queue EXCEPT ![t] = lpush(@, NewJob(id, p, pr))]
          /\ arrival' = [arrival EXCEPT ![t] = Append(@, id)]
          /\ returned' = [returned EXCEPT ![p] = id]
          /\ nClient' = p
  /\ UNCHANGED <<jobResult, processors, isProcessing, intervalVars, activeJobs,
                 ticks, inflight, outcomes>>
  /\ UNCHANGED <<stopVars, lastPoll, lost>>
  /\ UNCHANGED notJobVars

\* ------------------------------------------------------- registerProcessor
\* The handlers: the one registerDefaultProcessors makes for a type, and one
\* of the application's own.
Handlers == {"default", "custom"}

\* this.processors.set(jobType, processor)
registerProcessor(m, t, f) ==
  [x \in DOMAIN m \cup {t} |-> IF x = t THEN f ELSE m[x]]

\* registerDefaultProcessors(): registerProcessor(type, <default handler>)
\* for each of the four types
registerDefaultProcessors(m) ==
  registerProcessor(
    registerProcessor(
      registerProcessor(
        registerProcessor(m, "document_processing", "default"),
        "ai_processing", "default"),
      "notification", "default"),
    "cleanup", "default")

\* jobProcessor.registerProcessor(jobType, processor) by the application
RegisterProcessor(t, f) ==
  /\ IF t \in DOMAIN processors THEN processors[t] # f ELSE TRUE
  /\ processors' = registerProcessor(processors, t, f)
  /\ UNCHANGED <<queue, jobResult, isProcessing, intervalVars, activeJobs,
                 ticks, inflight, nClient, returned, outcomes, arrival>>
  /\ UNCHANGED <<stopVars, lastPoll, lost>>
  /\ UNCHANGED notJobVars

\* the types the application registers handlers of its own for
RegisterTypes == {"document_processing", "notification"}

\* --------------------------------------------------------- startProcessing
\* setInterval gives a timer nothing else refers to; which one is
\* immaterial, so it is the least not scheduled
NoInterval == 0

newInterval == CHOOSE i \in 1..(Cardinality(intervals) + 1) : i \notin intervals

StartProcessingUnguarded ==
  /\ isProcessing' = TRUE
  /\ intervals' = intervals \cup {newInterval}
  /\ processingIntervalId' = newInterval
  /\ processors' = registerDefaultProcessors(processors)
  /\ stopped' = FALSE
  /\ UNCHANGED <<queue, jobResult, activeJobs, ticks, inflight, nClient,
                 returned, outcomes, arrival, stopPc, lastPoll, lost>>
  /\ UNCHANGED notJobVars

StartProcessing ==
  /\ ~isProcessing
  /\ isProcessing' = TRUE
  /\ intervals' = intervals \cup {newInterval}
  /\ processingIntervalId' = newInterval
  /\ processors' = registerDefaultProcessors(processors)
  /\ stopped' = FALSE
  /\ UNCHANGED <<queue, jobResult, activeJobs, ticks, inflight, nClient,
                 returned, outcomes, arrival, stopPc, lastPoll, lost>>
  /\ UNCHANGED notJobVars

\* ------------------------------------------------------------- processJobs
NumTicks == ticks[1] + ticks[2] + ticks[3] + ticks[4]

\* the setInterval callback: processJobs up to its first await
TickFire(max) ==
  /\ intervals # {}
  /\ NumTicks < max
  /\ IF Cardinality(activeJobs) >= maxConcurrentJobs
       THEN UNCHANGED ticks
       ELSE ticks' = [ticks EXCEPT ![1] = @ + 1]
  /\ UNCHANGED <<queue, jobResult, processors, isProcessing, intervalVars,
                 activeJobs, inflight, nClient, returned, outcomes, arrival>>
  /\ UNCHANGED <<stopVars, lastPoll, lost>>
  /\ UNCHANGED notJobVars

\* processJobs() called on the exported processor by a caller of its own, not
\* by the interval: the call up to its first await
CallProcessJobs(max) ==
  /\ NumTicks < max
  /\ IF Cardinality(activeJobs) >= maxConcurrentJobs
       THEN UNCHANGED ticks
       ELSE ticks' = [ticks EXCEPT ![1] = @ + 1]
  /\ UNCHANGED <<queue, jobResult, processors, isProcessing, intervalVars,
                 activeJobs, inflight, nClient, returned, outcomes, arrival>>
  /\ UNCHANGED <<stopVars, lastPoll, lost>>
  /\ UNCHANGED notJobVars

\* processJob(jobType, job) up to its first await: the job joins activeJobs;
\* with a handler registered the handler is called, without one the throw is
\* caught and the catch block runs up to its own await.
Dispatched(t, job) ==
  IF t \in DOMAIN processors
    THEN [type |-> t, job |-> job, pc |-> "handler", handler |-> processors[t]]
    ELSE [type |-> t, job |-> [job EXCEPT !.attempts = @ + 1],
          handler |-> "none",
          pc |-> IF job.attempts + 1 < job.maxAttempts THEN "requeue"
                 ELSE IF HasMethod("set") THEN "set_failed" ELSE "rejected"]

\* a processJobs call resumes from `await redisService.dequeueJob(jobType)`
TickDequeue(i) ==
  /\ ticks[i] > 0
  /\ LET t == jobTypes[i]
         job == rpop(queue[t])
         h == Dispatched(t, job)
         act == IF job = None \/ h.pc = "rejected" THEN activeJobs
                ELSE activeJobs \cup {<<t, job.id>>}
         more == i < Len(jobTypes) /\ Cardinality(act) < maxConcurrentJobs
     IN /\ queue' = [queue EXCEPT ![t] = rpopRest(@)]
        /\ arrival' = IF job = None THEN arrival
                      ELSE [arrival EXCEPT ![t] = RemoveId(@, job.id)]
        /\ activeJobs' = act
        /\ inflight' = IF job = None \/ h.pc = "rejected" THEN inflight
                       ELSE inflight \cup {h}
        /\ ticks' = IF more THEN [ticks EXCEPT ![i] = @ - 1, ![i + 1] = @ + 1]
                    ELSE [ticks EXCEPT ![i] = @ - 1]
  /\ UNCHANGED <<jobResult, processors, isProcessing, intervalVars, nClient,
                 returned, outcomes>>
  /\ UNCHANGED <<stopVars, lastPoll, lost>>
  /\ UNCHANGED notJobVars

\* no processJobs call has had its dequeue fail yet
NoPoll == [index |-> 0, flip |-> 0]

TickDequeueFailsAndStops(i) ==
  /\ ticks[i] > 0
  /\ ticks' = [ticks EXCEPT ![i] = @ - 1]
  /\ lastPoll' = [index |-> i, flip |-> 1 - lastPoll.flip]
  /\ UNCHANGED lost
  /\ isProcessing' = FALSE
  /\ intervals' = {}
  /\ UNCHANGED <<queue, jobResult, processors, processingIntervalId, activeJobs,
                 inflight, nClient, returned, outcomes, arrival, stopVars>>
  /\ UNCHANGED notJobVars

\* a processJobs call resumes from `await redisService.dequeueJob(jobType)`
\* with the store unavailable: the adapter's rpop throws before it reaches
\* the client, dequeueJob rethrows, the catch block of processJobs logs and
\* the call returns
TickDequeueFails(i) ==
  /\ ticks[i] > 0
  /\ ticks' = [ticks EXCEPT ![i] = @ - 1]
  /\ lastPoll' = [index |-> i, flip |-> 1 - lastPoll.flip]
  /\ UNCHANGED lost
  /\ UNCHANGED <<queue, jobResult, processors, isProcessing, intervalVars,
                 activeJobs, inflight, nClient, returned, outcomes, arrival,
                 stopVars>>
  /\ UNCHANGED notJobVars

\* -------------------------------------------------------------- processJob
\* the outcomes of the first job's handler are remembered, dispatch by
\* dispatch, up to one more than the retry limit
Tracked == {1}

HistCap == maxAttempts + 1

Record(hist, outcome) == IF Len(hist) < HistCap THEN Append(hist, outcome) ELSE hist

\* where processJob goes when the handler's promise settles
AfterHandler(h, outcome) ==
  IF outcome = "ok" /\ HasMethod("set")
    THEN [h EXCEPT !.pc = "set_completed"]
    ELSE \* the handler threw, or redisService.set is not a function: catch
      LET attempts == h.job.attempts + 1
      IN [h EXCEPT !.job.attempts = attempts,
                   !.pc = IF attempts < h.job.maxAttempts THEN "requeue"
                          ELSE IF HasMethod("set") THEN "set_failed"
                          ELSE "rejected"]

HandlerSettle(h, outcome, tracked) ==
  /\ h \in inflight
  /\ h.pc = "handler"
  /\ LET g == AfterHandler(h, outcome)
     IN IF g.pc = "rejected"
          THEN \* the throw leaves the catch block: finally
               /\ inflight' = inflight \ {h}
               /\ activeJobs' = activeJobs \ {<<h.type, h.job.id>>}
          ELSE /\ inflight' = (inflight \ {h}) \cup {g}
               /\ UNCHANGED activeJobs
  /\ outcomes' = IF h.job.data \in tracked
                   THEN [outcomes EXCEPT ![h.job.data] = Record(@, outcome)]
                   ELSE outcomes
  /\ UNCHANGED <<queue, jobResult, processors, isProcessing, intervalVars,
                 ticks, nClient, returned, arrival>>
  /\ UNCHANGED <<stopVars, lastPoll, lost>>
  /\ UNCHANGED notJobVars

\* the retry of the catch block: redisService.enqueueJob(jobType, job.data,
\* job.priority || 0)
Requeued(h, id) == NewJob(id, h.job.data, h.job.priority)

\* what the store call processJob awaits leaves in the queues q and the
\* results: the retry pushed under the id enqueueJob made, or the job_result
\* written at second t
processJobSettled(h, q, results, id, t) ==
  IF h.pc = "requeue"
    THEN [queue |-> [q EXCEPT ![h.type] = lpush(@, Requeued(h, id))],
          results |-> results]
    ELSE [queue |-> q,
          results |-> set(results, h.job.id,
                          [status |-> IF h.pc = "set_completed" THEN "completed"
                                      ELSE "failed"], resultTtl, t)]

\* processJob resumes from the store call it awaited, then finally
ProcessJobResume(h) ==
  /\ h \in inflight
  /\ h.pc \in {"requeue", "set_completed", "set_failed"}
  /\ LET id == randomUUID(h.job.data)
         r == processJobSettled(h, queue, jobResult, id, now)
     IN /\ queue' = r.queue
        /\ jobResult' = r.results
        /\ arrival' = IF h.pc = "requeue"
                        THEN [arrival EXCEPT ![h.type] = Append(@, id)]
                        ELSE arrival
  /\ inflight' = inflight \ {h}
  /\ activeJobs' = activeJobs \ {<<h.type, h.job.id>>}
  /\ UNCHANGED <<processors, isProcessing, intervalVars, ticks, nClient,
                 returned, outcomes>>
  /\ UNCHANGED <<stopVars, lastPoll, lost>>
  /\ UNCHANGED notJobVars

ProcessJobResumeFailsKeepsActive(h) ==
  /\ h \in inflight
  /\ h.pc = "requeue"
  /\ inflight' = inflight \ {h}
  /\ lost' = lost \cup {h.job.id}
  /\ UNCHANGED <<queue, jobResult, processors, isProcessing, intervalVars,
                 activeJobs, ticks, nClient, returned, outcomes, arrival,
                 stopVars, lastPoll>>
  /\ UNCHANGED notJobVars

\* processJob resumes from `await redisService.enqueueJob(...)` of its catch
\* block with the store unavailable: the adapter's lpush throws before it
\* reaches the client, enqueueJob rethrows, the throw leaves the catch block,
\* finally runs, and the promise processJobs did not await is rejected
ProcessJobResumeFails(h) ==
  /\ h \in inflight
  /\ h.pc = "requeue"
  /\ inflight' = inflight \ {h}
  /\ activeJobs' = activeJobs \ {<<h.type, h.job.id>>}
  /\ lost' = lost \cup {h.job.id}
  /\ UNCHANGED <<queue, jobResult, processors, isProcessing, intervalVars,
                 ticks, nClient, returned, outcomes, arrival, stopVars, lastPoll>>
  /\ UNCHANGED notJobVars

\* JobProcessor.processJob(jobType, job) on the entry at the right end of
\* queue:<t>, from the dequeue to the end of the call with nothing in
\* between: what it leaves in the queues q and the results
processorProcessJob(q, results, t, outcome, at) ==
  LET job == rpop(q[t])
      rest == [q EXCEPT ![t] = rpopRest(@)]
      d == Dispatched(t, job)
      h == IF d.pc = "handler" THEN AfterHandler(d, outcome) ELSE d
  IN IF job = None THEN [queue |-> q, results |-> results]
     ELSE IF h.pc = "rejected" THEN [queue |-> rest, results |-> results]
     ELSE processJobSettled(h, rest, results, randomUUID(job.data), at)

\* ------------------------------------------------ RedisService.processJob
\* RedisService.processJob(queueName, processor), called at second at with a
\* processor whose promise settles with outcome: what it leaves in the
\* queues q and the results. Inside the service redisService is the adapter,
\* so set and lpush are the adapter's.
serviceProcessJob(q, results, t, outcome, at) ==
  LET job == rpop(q[t])
      rest == [q EXCEPT ![t] = rpopRest(@)]
      failed == [job EXCEPT !.attempts = @ + 1]   \* job.attempts += 1
  IN IF job = None THEN [queue |-> q, results |-> results]
     ELSE IF outcome = "ok"
       THEN [queue |-> rest,
             results |-> set(results, job.id, [status |-> "completed"],
                             resultTtl, at)]
     ELSE IF failed.attempts < failed.maxAttempts
       THEN [queue |-> [rest EXCEPT ![t] = lpush(@, failed)],
             results |-> results]
     ELSE [queue |-> rest,
           results |-> set(results, job.id, [status |-> "failed"],
                           resultTtl, at)]

\* redisService.processJob(t, processor) by a caller of the service
ServiceProcessJob(t, outcome) ==
  /\ queue[t] # <<>>
  /\ LET r == serviceProcessJob(queue, jobResult, t, outcome, now)
         id == rpop(queue[t]).id
     IN /\ queue' = r.queue
        /\ jobResult' = r.results
        /\ arrival' = [arrival EXCEPT ![t] =
                         IF Len(r.queue[t]) = Len(queue[t])
                           THEN Append(RemoveId(@, id), id)
                           ELSE RemoveId(@, id)]
  /\ UNCHANGED <<processors, isProcessing, intervalVars, activeJobs, ticks,
                 inflight, nClient, returned, outcomes, stopVars, lastPoll,
                 lost>>
  /\ UNCHANGED notJobVars

\* ---------------------------------------------------------- stopProcessing
\* stopProcessing() up to its first await; called while the processor is not
\* running it returns at once and changes nothing
StopProcessing ==
  /\ isProcessing
  /\ stopPc = "idle"
  /\ isProcessing' = FALSE
  \* if (this.processingIntervalId) clearInterval(this.processingIntervalId)
  /\ intervals' = intervals \ {processingIntervalId}
  /\ UNCHANGED processingIntervalId
  /\ IF Cardinality(activeJobs) > 0
       THEN stopPc' = "waiting" /\ UNCHANGED stopped
       ELSE stopPc' = "idle" /\ stopped' = TRUE
  /\ UNCHANGED <<queue, jobResult, processors, activeJobs, ticks, inflight,
                 nClient, returned, outcomes, arrival, lastPoll, lost>>
  /\ UNCHANGED notJobVars

\* stopProcessing() called on the running processor while an earlier
\* stopProcessing call is still waiting: up to its first await
StopProcessingAgain ==
  /\ isProcessing
  /\ stopPc = "waiting"
  /\ isProcessing' = FALSE
  /\ intervals' = intervals \ {processingIntervalId}
  /\ UNCHANGED processingIntervalId
  /\ UNCHANGED <<stopVars, lastPoll, lost>>
  /\ UNCHANGED <<queue, jobResult, processors, activeJobs, ticks, inflight,
                 nClient, returned, outcomes, arrival>>
  /\ UNCHANGED notJobVars

\* the one-second timer of the wait loop fires and activeJobs.size is 0: the
\* call returns (with jobs still active it sleeps again, changing nothing)
StopReturn ==
  /\ stopPc = "waiting"
  /\ Cardinality(activeJobs) = 0
  /\ stopPc' = "idle"
  /\ stopped' = ~isProcessing
  /\ UNCHANGED <<queue, jobResult, processors, isProcessing, intervalVars,
                 activeJobs, ticks, inflight, nClient, returned, outcomes,
                 arrival, lastPoll, lost>>
  /\ UNCHANGED notJobVars

\* ------------------------------------------------------------ getJobStatus
\* JobProcessor.getJobStatus(jobId): redisService.get(`job_result:${jobId}`)
getJobStatus(id) ==
  IF HasMethod("get") THEN getKey(jobResult, id) ELSE [threw |-> "TypeError"]

\* ---------------------------------------------------------------- sessions
Users == {"u1", "u2"}

\* a session run lasts until the first sessions' time to live has run out
SessHorizon == sessionTtl

\* A stored session: sessionId, userId and lastActivity (the second of the
\* ISO timestamp). createdAt and the caller's attributes are carried along
\* unread by every operation and are left out.
NewSession(id, u, t) == [sessionId |-> id, userId |-> u, lastActivity |-> t]

\* RedisService.getUserSessions(userId): the sessions of the members of
\* user_sessions:<userId> whose key exists
getUserSessions(u) ==
  {getKey(sessionKeys, Parse(m)) :
     m \in {x \in userSessions[u] : getKey(sessionKeys, Parse(x)) # None}}

\* RedisService.deleteSession(sessionId) on the store st = [keys, sets]
deleteSession(st, id) ==
  LET session == getKey(st.keys, id)
  IN [keys |-> delKey(st.keys, id),
      sets |-> IF session # None
                 THEN [st.sets EXCEPT ![session.userId] = @ \ {Stringify(id)}]
                 ELSE st.sets]

keepSessions(st, ids) == st

RECURSIVE deleteSessions(_, _)
\* for (const session of sessionsToRemove) await deleteSession(session.sessionId)
deleteSessions(st, ids) ==
  IF ids = {} THEN st
  ELSE LET id == CHOOSE x \in ids : TRUE
       IN deleteSessions(deleteSession(st, id), ids \ {id})

evictNewest(sessions) ==
  IF Cardinality(sessions) >= maxSessions
    THEN {R \in SUBSET sessions :
            /\ Cardinality(R) = Cardinality(sessions) - maxSessions + 1
            /\ \A r \in R, k \in sessions \ R : r.lastActivity >= k.lastActivity}
    ELSE {{}}

\* SessionManager.createSession: the sets sortedSessions.slice(0, length -
\* maxSessions + 1) can be after the sort by lastActivity, oldest first
\* (sessions of equal lastActivity come in the order smembers gave them)
sessionsToRemove(sessions) ==
  IF Cardinality(sessions) >= maxSessions
    THEN {R \in SUBSET sessions :
            /\ Cardinality(R) = Cardinality(sessions) - maxSessions + 1
            /\ \A r \in R, k \in sessions \ R : r.lastActivity <= k.lastActivity}
    ELSE {{}}

\* SessionManager.createSession(userId), then RedisService.createSession
CreateSession(u) ==
  /\ nSess < MaxSessionIds
  /\ LET sessions == getUserSessions(u)
     IN \E R \in sessionsToRemove(sessions) :
          LET st == deleteSessions([keys |-> sessionKeys, sets |-> userSessions],
                                   {r.sessionId : r \in R})
              id == nSess + 1
          IN /\ sessionKeys' = set(st.keys, id, NewSession(id, u, now), configTtl, now)
             /\ userSessions' = [st.sets EXCEPT ![u] = @ \cup {Stringify(id)}]
             /\ nSess' = id
             /\ lastEvict' = IF R = {} THEN lastEvict
                             ELSE {r.sessionId : r \in R}
  /\ UNCHANGED <<configTtl, lastOp>>
  /\ UNCHANGED <<reqVars, adapterVars, raceVars, jobVars, rateVars, slVars, notifVars, now>>

\* RedisService.updateSession(sessionId, updates); 'Session not found' is
\* thrown for an absent key
UpdateSession(id) ==
  /\ getKey(sessionKeys, id) # None
  /\ sessionKeys' = set(sessionKeys, id,
                        [getKey(sessionKeys, id) EXCEPT !.lastActivity = now],
                        updateTtl, now)
  /\ UNCHANGED <<userSessions, nSess, lastEvict, configTtl, lastOp>>
  /\ UNCHANGED <<reqVars, adapterVars, raceVars, jobVars, rateVars, slVars, notifVars, now>>

\* SessionManager.destroySession(sessionId)
DestroySession(id) ==
  /\ LET st == deleteSession([keys |-> sessionKeys, sets |-> userSessions], id)
     IN /\ sessionKeys' = st.keys
        /\ userSessions' = st.sets
  /\ UNCHANGED <<nSess, lastEvict, configTtl, lastOp>>
  /\ UNCHANGED <<reqVars, adapterVars, raceVars, jobVars, rateVars, slVars, notifVars, now>>

\* --------------------------------------- createSession, call by call
Creators == 1..NumCreators

\* a createSession call that is not in progress
IdleCreate == [pc |-> "idle", user |-> "", remove |-> {}]

\* createSession of caller c up to the return of getUserSessions: the
\* sessions to remove are settled from what it read
CreateRead(c, u) ==
  /\ creators[c].pc = "idle"
  /\ nSess < RaceSessionIds
  /\ \E R \in sessionsToRemove(getUserSessions(u)) :
       creators' = [creators EXCEPT ![c] =
                      [pc |-> IF R = {} THEN "create" ELSE "delete", user |-> u,
                       remove |-> {r.sessionId : r \in R}]]
  /\ overlapped' = (overlapped \/ \E d \in Creators \ {c} : creators[d].pc # "idle")
  /\ UNCHANGED <<callers, raceCalls, updaters, sessVars>>
  /\ UNCHANGED <<reqVars, jobVars, rateVars, slVars, notifVars, adapterVars, now>>

\* the loop over sessionsToRemove: deleteSession of each
CreateDelete(c) ==
  /\ creators[c].pc = "delete"
  /\ LET st == deleteSessions([keys |-> sessionKeys, sets |-> userSessions],
                              creators[c].remove)
     IN /\ sessionKeys' = st.keys
        /\ userSessions' = st.sets
  /\ lastEvict' = creators[c].remove
  /\ creators' = [creators EXCEPT ![c].pc = "create"]
  /\ UNCHANGED <<nSess, configTtl, lastOp>>
  /\ UNCHANGED <<callers, raceCalls, overlapped, updaters>>
  /\ UNCHANGED <<reqVars, jobVars, rateVars, slVars, notifVars, adapterVars, now>>

\* RedisService.createSession: the new session is stored and its id added to
\* the user's set; createSession returns
CreateStore(c) ==
  /\ creators[c].pc = "create"
  /\ nSess < RaceSessionIds
  /\ LET id == nSess + 1
         u == creators[c].user
     IN /\ sessionKeys' = set(sessionKeys, id, NewSession(id, u, now), configTtl, now)
        /\ userSessions' = [userSessions EXCEPT ![u] = @ \cup {Stringify(id)}]
        /\ nSess' = id
  /\ creators' = [creators EXCEPT ![c] = IdleCreate]
  /\ UNCHANGED <<lastEvict, configTtl, lastOp>>
  /\ UNCHANGED <<callers, raceCalls, overlapped, updaters>>
  /\ UNCHANGED <<reqVars, jobVars, rateVars, slVars, notifVars, adapterVars, now>>

\* --------------------------------------- updateSession, call by call
Updaters == 1..NumUpdaters

\* an updateSession call that is not in progress
IdleUpdate == [pc |-> "idle", id |-> 0, session |-> None, ttl |-> 0]

\* RedisService.updateSession(sessionId, updates, ttl) of caller c up to the
\* return of `await redisService.get(sessionKey)`; with no session it throws
\* 'Session not found'. The caller is updateSession's own (ttl 3600), the
\* middleware (ttl 3600) or refreshSession (ttl sessionConfig.ttl).
UpdateRead(c, id, ttl) ==
  /\ updaters[c].pc = "idle"
  /\ LET session == getKey(sessionKeys, id)
     IN updaters' = [updaters EXCEPT ![c] =
                       IF session = None THEN IdleUpdate
                       ELSE [pc |-> "set", id |-> id, session |-> session,
                             ttl |-> ttl]]
  /\ updaters'[c] # IdleUpdate
  /\ UNCHANGED <<callers, raceCalls, overlapped, creators, sessVars>>
  /\ UNCHANGED <<reqVars, jobVars, rateVars, slVars, notifVars, adapterVars, now>>

\* the call resumes: redisService.set(sessionKey, updatedSession, ttl) with
\* the session it read, and returns
UpdateWrite(c) ==
  /\ updaters[c].pc = "set"
  /\ sessionKeys' = set(sessionKeys, updaters[c].id,
                        [updaters[c].session EXCEPT !.lastActivity = now],
                        updaters[c].ttl, now)
  /\ updaters' = [updaters EXCEPT ![c] = IdleUpdate]
  /\ UNCHANGED <<userSessions, nSess, lastEvict, configTtl, lastOp>>
  /\ UNCHANGED <<callers, raceCalls, overlapped, creators>>
  /\ UNCHANGED <<reqVars, jobVars, rateVars, slVars, notifVars, adapterVars, now>>

\* ----------------------------------------------- SessionManager, the rest
\* no middleware, refresh, destroy or cleanup call made yet
NoOp ==
  [op |-> "none", id |-> 0, user |-> "", result |-> "", count |-> 0,
   session |-> None, nexts |-> 0, flip |-> 0]

\* SessionManager.isSessionExpired(session) at second t (getTime() is in
\* milliseconds)
isSessionExpired(session, t) ==
  (t - session.lastActivity) * 1000 > configTtl * 1000

\* extractSessionId(req) found no session id in the request
NoSessionId == 0

\* the service calls a request's middleware makes, any of which the store
\* may fail ('Redis not connected'); "none": the store answers them all
StoreCalls == {"getSession", "deleteSession", "updateSession"}

sessionMiddlewareAttachFirst(st, id, t, fail) ==
  LET noSession == [keys |-> st.keys, sets |-> st.sets, session |-> None,
                    user |-> "", nexts |-> 1]
      session == getKey(st.keys, id)
  IN IF id = NoSessionId THEN noSession
     ELSE IF fail = "getSession" THEN noSession
     ELSE IF session = None THEN noSession
     ELSE IF isSessionExpired(session, t)
       THEN IF fail = "deleteSession" THEN noSession
            ELSE LET d == deleteSession(st, id)
                 IN [keys |-> d.keys, sets |-> d.sets, session |-> None,
                     user |-> "", nexts |-> 1]
       ELSE [keys |-> IF fail = "updateSession" THEN st.keys
                      ELSE set(st.keys, id, [session EXCEPT !.lastActivity = t],
                               updateTtl, t),
             sets |-> st.sets, session |-> session,
             user |-> session.userId, nexts |-> 1]

\* The middleware of createSessionMiddleware() on a request carrying session
\* id `id` at second t, on the store st = [keys, sets], with the store call
\* `fail` throwing: the store it leaves, req.session, req.user.id ("" if
\* req.user is not set) and the number of next() calls.
sessionMiddleware(st, id, t, fail) ==
  LET noSession == [keys |-> st.keys, sets |-> st.sets, session |-> None,
                    user |-> "", nexts |-> 1]
      session == getKey(st.keys, id)
  IN IF id = NoSessionId THEN noSession
     ELSE IF fail = "getSession" THEN noSession          \* catch
     ELSE IF session = None THEN noSession
     ELSE IF isSessionExpired(session, t)
       THEN IF fail = "deleteSession" THEN noSession     \* catch
            ELSE LET d == deleteSession(st, id)
                 IN [keys |-> d.keys, sets |-> d.sets, session |-> None,
                     user |-> "", nexts |-> 1]
       ELSE IF fail = "updateSession" THEN noSession     \* catch
            ELSE [keys |-> set(st.keys, id, [session EXCEPT !.lastActivity = t],
                               updateTtl, t),
                  sets |-> st.sets, session |-> session,
                  user |-> session.userId, nexts |-> 1]

\* ------------------------------------------------------ extractSessionId
\* A request as extractSessionId reads it: the Authorization header (none,
\* a scheme other than Bearer, a Bearer token jwt.verify accepts or one it
\* rejects), the sessionId claim of the token, the sessionId cookie and the
\* x-session-id header; NoSessionId stands for an absent one.
AuthKinds == {"none", "basic", "bearer-valid", "bearer-invalid"}

RequestIds == 0..MaxRequestId

Requests ==
  [auth : AuthKinds, claim : RequestIds, cookie : RequestIds,
   header : RequestIds]

NotResolved == 0 - 1

extractSessionIdHeaderFirst(r) ==
  IF r.auth = "bearer-valid" THEN r.claim
  ELSE IF r.header # NoSessionId THEN r.header
  ELSE IF r.cookie # NoSessionId THEN r.cookie
  ELSE NoSessionId

\* SessionManager.extractSessionId(req); undefined (a verified token without
\* the claim) and null are both NoSessionId
extractSessionId(r) ==
  IF r.auth = "bearer-valid"
    THEN r.claim  \* return decoded.sessionId
    ELSE \* no Bearer token, or jwt.verify threw: "continue to other methods"
      IF r.cookie # NoSessionId THEN r.cookie
      ELSE IF r.header # NoSessionId THEN r.header
      ELSE NoSessionId

\* a request arrives
NewRequest ==
  /\ resolved # NotResolved
  /\ req' \in Requests
  /\ resolved' = NotResolved
  /\ UNCHANGED <<jobVars, sessVars, rateVars, slVars, notifVars, adapterVars,
                 raceVars, now>>

\* the middleware calls extractSessionId(req)
ExtractSessionId ==
  /\ resolved = NotResolved
  /\ resolved' = extractSessionId(req)
  /\ UNCHANGED req
  /\ UNCHANGED <<jobVars, sessVars, rateVars, slVars, notifVars, adapterVars,
                 raceVars, now>>

\* a request passes through the session middleware
SessionMiddleware(id, fail) ==
  /\ LET r == sessionMiddleware([keys |-> sessionKeys, sets |-> userSessions],
                                id, now, fail)
     IN /\ sessionKeys' = r.keys
        /\ userSessions' = r.sets
        /\ lastOp' = [NoOp EXCEPT !.op = "middleware", !.id = id,
                                  !.result = fail, !.session = r.session,
                                  !.user = r.user, !.nexts = r.nexts,
                                  !.flip = 1 - lastOp.flip]
  /\ UNCHANGED <<nSess, lastEvict, configTtl>>
  /\ UNCHANGED <<reqVars, adapterVars, raceVars, jobVars, rateVars, slVars, notifVars, now>>

refreshSessionDefaultTtl(st, id, t) ==
  LET session == getKey(st.keys, id)
  IN IF session = None
       THEN [keys |-> st.keys, sets |-> st.sets, result |-> "Session not found"]
     ELSE IF isSessionExpired(session, t)
       THEN LET d == deleteSession(st, id)
            IN [keys |-> d.keys, sets |-> d.sets, result |-> "Session expired"]
     ELSE [keys |-> set(st.keys, id, [session EXCEPT !.lastActivity = t],
                        updateTtl, t),
           sets |-> st.sets, result |-> "ok"]

\* SessionManager.refreshSession(sessionId) at second t: the store it leaves
\* and how it ends, "ok" or the error it throws
refreshSession(st, id, t) ==
  LET session == getKey(st.keys, id)
  IN IF session = None
       THEN [keys |-> st.keys, sets |-> st.sets, result |-> "Session not found"]
     ELSE IF isSessionExpired(session, t)
       THEN LET d == deleteSession(st, id)
            IN [keys |-> d.keys, sets |-> d.sets, result |-> "Session expired"]
     ELSE [keys |-> set(st.keys, id, [session EXCEPT !.lastActivity = t],
                        configTtl, t),
           sets |-> st.sets, result |-> "ok"]

RefreshSession(id) ==
  /\ LET r == refreshSession([keys |-> sessionKeys, sets |-> userSessions],
                             id, now)
     IN /\ sessionKeys' = r.keys
        /\ userSessions' = r.sets
        /\ lastOp' = [NoOp EXCEPT !.op = "refresh", !.id = id,
                                  !.result = r.result,
                                  !.flip = 1 - lastOp.flip]
  /\ UNCHANGED <<nSess, lastEvict, configTtl>>
  /\ UNCHANGED <<reqVars, adapterVars, raceVars, jobVars, rateVars, slVars, notifVars, now>>

\* SessionManager.destroySession(sessionId) with what it returns: the count
\* del gave
DestroySessionCall(id) ==
  /\ LET st == deleteSession([keys |-> sessionKeys, sets |-> userSessions], id)
     IN /\ sessionKeys' = st.keys
        /\ userSessions' = st.sets
        /\ lastOp' = [NoOp EXCEPT !.op = "destroy", !.id = id,
                                  !.result = "returned",
                                  !.count = delCount(sessionKeys, id),
                                  !.flip = 1 - lastOp.flip]
  /\ UNCHANGED <<nSess, lastEvict, configTtl>>
  /\ UNCHANGED <<reqVars, adapterVars, raceVars, jobVars, rateVars, slVars, notifVars, now>>

\* SessionManager.destroyUserSessions(userId): returns userSessions.length
DestroyUserSessions(u) ==
  /\ LET sessions == getUserSessions(u)
         st == deleteSessions([keys |-> sessionKeys, sets |-> userSessions],
                              {x.sessionId : x \in sessions})
     IN /\ sessionKeys' = st.keys
        /\ userSessions' = st.sets
        /\ lastOp' = [NoOp EXCEPT !.op = "destroyUser", !.user = u,
                                  !.result = "returned",
                                  !.count = Cardinality(sessions),
                                  !.flip = 1 - lastOp.flip]
  /\ UNCHANGED <<nSess, lastEvict, configTtl>>
  /\ UNCHANGED <<reqVars, adapterVars, raceVars, jobVars, rateVars, slVars, notifVars, now>>

\* SessionManager.cleanupExpiredSessions() at second t: redisService.keys and
\* redisService.get are called on the service
cleanupExpiredSessions(st, t) ==
  IF ~HasMethod("keys") \/ ~HasMethod("get")
    THEN [keys |-> st.keys, sets |-> st.sets, result |-> "TypeError",
          count |-> 0]
    ELSE LET expired == {id \in DOMAIN st.keys :
                           isSessionExpired(getKey(st.keys, id), t)}
             d == deleteSessions(st, expired)
         IN [keys |-> d.keys, sets |-> d.sets, result |-> "returned",
             count |-> Cardinality(expired)]

CleanupExpiredSessions ==
  /\ LET r == cleanupExpiredSessions([keys |-> sessionKeys,
                                      sets |-> userSessions], now)
     IN /\ sessionKeys' = r.keys
        /\ userSessions' = r.sets
        /\ lastOp' = [NoOp EXCEPT !.op = "cleanup", !.result = r.result,
                                  !.count = r.count,
                                  !.flip = 1 - lastOp.flip]
  /\ UNCHANGED <<nSess, lastEvict, configTtl>>
  /\ UNCHANGED <<reqVars, adapterVars, raceVars, jobVars, rateVars, slVars, notifVars, now>>

\* d seconds pass, up to second max
AdvanceClock(d, max) ==
  /\ now + d <= max
  /\ now' = now + d
  /\ sessionKeys' = Expire(sessionKeys, now')
  /\ rateKeys' = Expire(rateKeys, now')
  /\ slKeys' = Expire(slKeys, now')
  /\ UNCHANGED <<userSessions, nSess, lastEvict, configTtl, lastOp>>
  /\ UNCHANGED <<rlLimit, rlWindow, admitted, firstAccept, lastAccept, lastCall,
                 lastReq>>
  /\ UNCHANGED <<reqVars, slLog, adapterVars, raceVars, jobVars, notifVars>>

\* ------------------------------------------------------ fixed-window limit
\* the one identifier the calls are made on
rateKey == "rate_limit:id"

\* `current === null` after get: value ? JSON.parse(value) : null is null
\* exactly for an absent key (a stored count is never the empty text)
isNull(space, k) == k \notin DOMAIN space

DeniedAbove(current, limit) == current > limit

\* checkRateLimit: if (current >= limit)
Denied(current, limit) == current >= limit

checkRateLimitDenyRenews(space, key, limit, window, t) ==
  LET current == getKey(space, key)
  IN IF isNull(space, key)
       THEN [store |-> set(space, key, 1, window, t),
             allowed |-> TRUE, remaining |-> limit - 1]
       ELSE IF Denied(current, limit)
         THEN [store |-> set(space, key, current, window, t),
               allowed |-> FALSE, remaining |-> 0]
         ELSE [store |-> set(space, key, current + 1, window, t),
               allowed |-> TRUE, remaining |-> limit - current - 1]

\* RedisService.checkRateLimit(identifier, limit, window) at second t: the
\* store it leaves and what it returns (resetTime is t + window, unread here)
checkRateLimit(space, key, limit, window, t) ==
  LET current == getKey(space, key)
  IN IF isNull(space, key)
       THEN [store |-> set(space, key, 1, window, t),
             allowed |-> TRUE, remaining |-> limit - 1]
       ELSE IF Denied(current, limit)
         THEN [store |-> space, allowed |-> FALSE, remaining |-> 0]
         ELSE [store |-> set(space, key, current + 1, window, t),
               allowed |-> TRUE, remaining |-> limit - current - 1]

NoTime == 0 - 1

NoCount == 0 - 1

Since(t) == IF t = NoTime THEN NoTime ELSE now - t

\* a call of checkRateLimit(id, rlLimit, rlWindow), run to its return
CheckRateLimit ==
  /\ LET r == checkRateLimit(rateKeys, rateKey, rlLimit, rlWindow, now)
         fresh == isNull(rateKeys, rateKey)
     IN /\ rateKeys' = r.store
        /\ admitted' = IF fresh THEN 1
                       ELSE IF r.allowed THEN admitted + 1 ELSE admitted
        /\ firstAccept' = IF fresh THEN now ELSE firstAccept
        /\ lastAccept' = IF r.allowed THEN now ELSE lastAccept
        /\ lastCall' = [found |-> IF fresh THEN NoCount
                                  ELSE getKey(rateKeys, rateKey),
                        allowed |-> r.allowed,
                        remaining |-> r.remaining,
                        sinceFirst |-> Since(firstAccept),
                        sinceLast |-> Since(lastAccept),
                        prior |-> admitted]
  /\ UNCHANGED <<rlLimit, rlWindow, lastReq, now>>
  /\ UNCHANGED <<reqVars, adapterVars, raceVars, jobVars, sessVars, slVars, notifVars>>

\* RedisService.resetRateLimit(identifier)
ResetRateLimit ==
  /\ rateKeys' = delKey(rateKeys, rateKey)
  /\ admitted' = 0
  /\ firstAccept' = NoTime
  /\ lastAccept' = NoTime
  /\ UNCHANGED <<rlLimit, rlWindow, lastCall, lastReq, now>>
  /\ UNCHANGED <<reqVars, adapterVars, raceVars, jobVars, sessVars, slVars, notifVars>>

\* ------------------------------------------------- limiter middlewares
\* checkRateLimit with the store failing ('Redis not connected') at its get
\* or at its set, fail = "get" or "set"; anything else: the store answers.
\* The call then throws 'Failed to check rate limit' and stores nothing.
checkRateLimitOrThrow(space, key, limit, window, t, fail) ==
  LET r == checkRateLimit(space, key, limit, window, t)
      threw == fail = "get" \/ (fail = "set" /\ r.allowed)
  IN [store |-> IF threw THEN space ELSE r.store, threw |-> threw,
      allowed |-> r.allowed, remaining |-> r.remaining]

\* getIdentifier(req, limitType) of the one user the requests come from
getIdentifier(limitType) == "user:1:" \o limitType

\* the key checkRateLimit makes of an identifier
rateLimitKey(identifier) == "rate_limit:" \o identifier

createLimiterFailClosed(space, limit, window, t, fail) ==
  LET r == checkRateLimitOrThrow(space, rateLimitKey(getIdentifier("api")),
                                 limit, window, t, fail)
  IN IF r.threw THEN [store |-> r.store, threw |-> TRUE, status |-> "429", nexts |-> 0,
                   headers |-> FALSE, remaining |-> NoCount]
     ELSE IF ~r.allowed
       THEN [store |-> r.store, threw |-> FALSE, status |-> "429", nexts |-> 0,
             headers |-> TRUE, remaining |-> r.remaining]
       ELSE [store |-> r.store, threw |-> FALSE, status |-> "next", nexts |-> 1,
             headers |-> TRUE, remaining |-> r.remaining]

\* The middleware createLimiter('api', {limit, window}) returns, on one
\* request at second t: the store it leaves, whether a store call threw, the
\* response (429 or next()) and the number of next() calls.
createLimiter(space, limit, window, t, fail) ==
  LET r == checkRateLimitOrThrow(space, rateLimitKey(getIdentifier("api")),
                                 limit, window, t, fail)
  IN IF r.threw  \* catch: "Allow request to proceed if rate limiter fails"
       THEN [store |-> r.store, threw |-> TRUE, status |-> "next", nexts |-> 1,
             headers |-> FALSE, remaining |-> NoCount]
     ELSE IF ~r.allowed
       THEN [store |-> r.store, threw |-> FALSE, status |-> "429", nexts |-> 0,
             headers |-> TRUE, remaining |-> r.remaining]
       ELSE [store |-> r.store, threw |-> FALSE, status |-> "next", nexts |-> 1,
             headers |-> TRUE, remaining |-> r.remaining]

\* the middleware createCustomLimiter(limit, window) returns
createCustomLimiter(space, limit, window, t, fail) ==
  LET r == checkRateLimitOrThrow(space, rateLimitKey(getIdentifier("custom")),
                                 limit, window, t, fail)
  IN IF r.threw
       THEN [store |-> r.store, threw |-> TRUE, status |-> "next", nexts |-> 1,
             headers |-> FALSE, remaining |-> NoCount]
     ELSE IF ~r.allowed
       THEN [store |-> r.store, threw |-> FALSE, status |-> "429", nexts |-> 0,
             headers |-> TRUE, remaining |-> r.remaining]
       ELSE [store |-> r.store, threw |-> FALSE, status |-> "next", nexts |-> 1,
             headers |-> TRUE, remaining |-> r.remaining]

\* Math.min of two numbers
min(a, b) == IF a < b THEN a ELSE b

\* the burst limit the burst limiter is made with
BurstLimit == LimiterLimit + 1

\* the key of the second check createBurstLimiter makes
burstKey == rateLimitKey(getIdentifier("burst") \o ":burst")

createBurstLimiterEither(space, baseLimit, burstLimit, window, t, fail) ==
  LET baseResult ==
        checkRateLimitOrThrow(space, rateLimitKey(getIdentifier("burst")),
                              baseLimit, window, t,
                              IF fail = "base.get" THEN "get"
                              ELSE IF fail = "base.set" THEN "set" ELSE "none")
      burstResult ==
        checkRateLimitOrThrow(baseResult.store, burstKey, burstLimit, 60, t,
                              IF fail = "burst.get" THEN "get"
                              ELSE IF fail = "burst.set" THEN "set" ELSE "none")
      allowed == baseResult.allowed \/ burstResult.allowed
      remaining == min(baseResult.remaining, burstResult.remaining)
  IN IF baseResult.threw
       THEN [store |-> baseResult.store, threw |-> TRUE, status |-> "next",
             nexts |-> 1, headers |-> FALSE, remaining |-> NoCount]
     ELSE IF burstResult.threw
       THEN [store |-> burstResult.store, threw |-> TRUE, status |-> "next",
             nexts |-> 1, headers |-> FALSE, remaining |-> NoCount]
     ELSE IF ~allowed
       THEN [store |-> burstResult.store, threw |-> FALSE, status |-> "429",
             nexts |-> 0, headers |-> TRUE, remaining |-> remaining]
       ELSE [store |-> burstResult.store, threw |-> FALSE, status |-> "next",
             nexts |-> 1, headers |-> TRUE, remaining |-> remaining]

createBurstLimiterShortCircuit(space, baseLimit, burstLimit, window, t, fail) ==
  LET baseResult ==
        checkRateLimitOrThrow(space, rateLimitKey(getIdentifier("burst")),
                              baseLimit, window, t,
                              IF fail = "base.get" THEN "get"
                              ELSE IF fail = "base.set" THEN "set" ELSE "none")
      burstResult ==
        IF ~baseResult.threw /\ ~baseResult.allowed
          THEN [baseResult EXCEPT !.allowed = FALSE]
          ELSE checkRateLimitOrThrow(baseResult.store, burstKey, burstLimit, 60, t,
                                     IF fail = "burst.get" THEN "get"
                                     ELSE IF fail = "burst.set" THEN "set"
                                     ELSE "none")
      allowed == baseResult.allowed /\ burstResult.allowed
      remaining == min(baseResult.remaining, burstResult.remaining)
  IN IF baseResult.threw
       THEN [store |-> baseResult.store, threw |-> TRUE, status |-> "next",
             nexts |-> 1, headers |-> FALSE, remaining |-> NoCount]
     ELSE IF burstResult.threw
       THEN [store |-> burstResult.store, threw |-> TRUE, status |-> "next",
             nexts |-> 1, headers |-> FALSE, remaining |-> NoCount]
     ELSE IF ~allowed
       THEN [store |-> burstResult.store, threw |-> FALSE, status |-> "429",
             nexts |-> 0, headers |-> TRUE, remaining |-> remaining]
       ELSE [store |-> burstResult.store, threw |-> FALSE, status |-> "next",
             nexts |-> 1, headers |-> TRUE, remaining |-> remaining]

\* the middleware createBurstLimiter(baseLimit, burstLimit, window) returns;
\* fail names the check and the store call that fails: "base.get",
\* "base.set", "burst.get", "burst.set"
createBurstLimiter(space, baseLimit, burstLimit, window, t, fail) ==
  LET baseResult ==
        checkRateLimitOrThrow(space, rateLimitKey(getIdentifier("burst")),
                              baseLimit, window, t,
                              IF fail = "base.get" THEN "get"
                              ELSE IF fail = "base.set" THEN "set" ELSE "none")
      burstResult ==
        checkRateLimitOrThrow(baseResult.store, burstKey, burstLimit, 60, t,
                              IF fail = "burst.get" THEN "get"
                              ELSE IF fail = "burst.set" THEN "set" ELSE "none")
      allowed == baseResult.allowed /\ burstResult.allowed
      remaining == min(baseResult.remaining, burstResult.remaining)
  IN IF baseResult.threw
       THEN [store |-> baseResult.store, threw |-> TRUE, status |-> "next",
             nexts |-> 1, headers |-> FALSE, remaining |-> NoCount]
     ELSE IF burstResult.threw
       THEN [store |-> burstResult.store, threw |-> TRUE, status |-> "next",
             nexts |-> 1, headers |-> FALSE, remaining |-> NoCount]
     ELSE IF ~allowed
       THEN [store |-> burstResult.store, threw |-> FALSE, status |-> "429",
             nexts |-> 0, headers |-> TRUE, remaining |-> remaining]
       ELSE [store |-> burstResult.store, threw |-> FALSE, status |-> "next",
             nexts |-> 1, headers |-> TRUE, remaining |-> remaining]

\* the store calls of a limiter that may fail
LimiterFails == {"none", "get", "set"}

BurstFails == {"none", "base.get", "base.set", "burst.get", "burst.set"}

\* a request passes through the limiter r describes
LimiterStep(name, fail, r) ==
  /\ rateKeys' = r.store
  /\ lastReq' = [limiter |-> name, fail |-> fail, threw |-> r.threw,
                 status |-> r.status, nexts |-> r.nexts,
                 headers |-> r.headers, remaining |-> r.remaining,
                 flip |-> 1 - lastReq.flip]
  /\ UNCHANGED <<rlLimit, rlWindow, admitted, firstAccept, lastAccept, lastCall>>
  /\ UNCHANGED <<reqVars, adapterVars, raceVars, jobVars, sessVars, notifVars, now>>

LimiterRequest(fail) ==
  /\ LimiterStep("createLimiter", fail,
                 createLimiter(rateKeys, rlLimit, rlWindow, now, fail))
  /\ UNCHANGED slVars

CustomLimiterRequest(fail) ==
  /\ LimiterStep("createCustomLimiter", fail,
                 createCustomLimiter(rateKeys, rlLimit, rlWindow, now, fail))
  /\ UNCHANGED slVars

BurstLimiterRequest(burstLimit, fail) ==
  /\ LimiterStep("createBurstLimiter", fail,
                 createBurstLimiter(rateKeys, rlLimit, burstLimit, rlWindow, now,
                                    fail))
  /\ UNCHANGED slVars

\* ---------------------------------------------------- sliding-window limit
\* <identifier>:requests of the one identifier the requests come from
slKey == "id:sliding:requests"

\* the middleware createSlidingWindowLimiter(limit, window) returns, run on one
\* request at second now (Date.now() is in milliseconds): the store it leaves,
\* the response, 429 or next(), whether res.set wrote the X-RateLimit headers
\* and the remaining value written
slidingWindowLimiter(space, limit, window, t) ==
  IF ~HasMethod("get")
    THEN \* redisService.get is not a function: catch, next()
         [store |-> space, status |-> "next", headers |-> FALSE,
          remaining |-> NoCount]
    ELSE LET nowMs == t * 1000
             windowStart == nowMs - (window * 1000)
             requests == IF isNull(space, slKey) THEN <<>> ELSE getKey(space, slKey)
             validRequests == SelectSeq(requests, LAMBDA ts : ts > windowStart)
         IN IF Len(validRequests) >= limit
              THEN \* return res.status(429) before res.set
                   [store |-> space, status |-> "429", headers |-> FALSE,
                    remaining |-> NoCount]
              ELSE IF ~HasMethod("set")
                THEN [store |-> space, status |-> "next", headers |-> FALSE,
                      remaining |-> NoCount]
                ELSE [store |-> set(space, slKey, Append(validRequests, nowMs),
                                    window, t),
                      status |-> "next", headers |-> TRUE,
                      remaining |-> limit - (Len(validRequests) + 1)]

\* the same middleware with the store failing at its get or its set: the
\* adapter throws where the call reaches it
slidingWindowLimiterOrThrow(space, limit, window, t, fail) ==
  LET r == slidingWindowLimiter(space, limit, window, t)
  IN IF ~HasMethod("get")
       THEN [store |-> r.store, threw |-> TRUE, status |-> r.status, nexts |-> 1,
             headers |-> r.headers, remaining |-> r.remaining]
     ELSE IF fail = "get" \/ (fail = "set" /\ r.status = "next")
       THEN [store |-> space, threw |-> TRUE, status |-> "next", nexts |-> 1,
             headers |-> FALSE, remaining |-> NoCount]
       ELSE [store |-> r.store, threw |-> FALSE, status |-> r.status,
             nexts |-> IF r.status = "next" THEN 1 ELSE 0,
             headers |-> r.headers, remaining |-> r.remaining]

SlidingLimiterRequest(limit, window, fail) ==
  /\ LET r == slidingWindowLimiterOrThrow(slKeys, limit, window, now, fail)
     IN /\ slKeys' = r.store
        /\ lastReq' = [limiter |-> "createSlidingWindowLimiter", fail |-> fail,
                       threw |-> r.threw, status |-> r.status,
                       nexts |-> r.nexts, headers |-> r.headers,
                       remaining |-> r.remaining, flip |-> 1 - lastReq.flip]
  /\ UNCHANGED <<rateKeys, rlLimit, rlWindow, admitted, firstAccept, lastAccept,
                 lastCall, slLog>>
  /\ UNCHANGED <<reqVars, adapterVars, raceVars, jobVars, sessVars, notifVars, now>>

\* a request passes through the middleware
SlidingRequest(limit, window, max) ==
  /\ Len(slLog) < max
  /\ LET r == slidingWindowLimiter(slKeys, limit, window, now)
     IN /\ slKeys' = r.store
        /\ slLog' = Append(slLog, [t |-> now, status |-> r.status])
  /\ UNCHANGED <<reqVars, adapterVars, raceVars, jobVars, sessVars, rateVars, notifVars, now>>

\* ----------------------------------------------------------- notifications
\* smembers (config/redis.js) on the key of a list: client.sMembers of a key
\* that holds a list is refused by the store (WRONGTYPE) and the adapter
\* rethrows; a key that does not exist reads as the empty set
smembersOfList(list) ==
  IF list = <<>> THEN [threw |-> FALSE, members |-> <<>>]
  ELSE [threw |-> TRUE, members |-> <<>>]

RECURSIVE rpopTimes(_, _)
\* for (i = 0; i < n; i++) await rpop(key)
rpopTimes(list, n) == IF n <= 0 THEN list ELSE rpopTimes(rpopRest(list), n - 1)

\* RedisService.publishNotification(userId, notification) on the user's list:
\* the list it leaves and whether it threw
publishNotification(list, message) ==
  LET pushed == lpush(list, message)
      notifications == smembersOfList(pushed)
  IN IF notifications.threw
       THEN [list |-> pushed, threw |-> TRUE]
       ELSE [list |-> IF Len(notifications.members) > maxNotifications
                        THEN rpopTimes(pushed, Len(notifications.members)
                                                 - maxNotifications)
                        ELSE pushed,
             threw |-> FALSE]

\* RedisService.getUserNotifications(userId, limit)
getUserNotifications(list, limit) ==
  LET notifications == smembersOfList(list)
  IN IF notifications.threw THEN [threw |-> TRUE, value |-> <<>>]
     ELSE [threw |-> FALSE,
           value |-> SubSeq(notifications.members, 1,
                            IF limit < Len(notifications.members) THEN limit
                            ELSE Len(notifications.members))]

\* the user the notifications of a run are for
NotifUser == "u1"

\* publishNotification(NotifUser, {message}); the id made is the call's number
PublishNotification(max) ==
  /\ nPub < max
  /\ LET r == publishNotification(notifs[NotifUser],
                                  [id |-> nPub + 1, message |-> nPub + 1])
     IN notifs' = [notifs EXCEPT ![NotifUser] = r.list]
  /\ nPub' = nPub + 1
  /\ UNCHANGED lastList
  /\ UNCHANGED <<reqVars, adapterVars, raceVars, jobVars, sessVars, rateVars, slVars, now>>

\* The handler registered for 'notification' settles: it awaits
\* redisService.publishNotification(data.userId, {type, message, data}) and
\* resolves if that resolved, rejects if it threw; processJob goes on from
\* there. The job with payload p carries {userId: NotifUser, message: p}.
NotificationSettle(h, max) ==
  /\ h \in inflight
  /\ h.pc = "handler"
  /\ h.type = "notification"
  /\ nPub < max
  /\ LET r == publishNotification(notifs[NotifUser],
                                  [id |-> nPub + 1, message |-> h.job.data])
         g == AfterHandler(h, IF r.threw THEN "failed" ELSE "ok")
     IN /\ notifs' = [notifs EXCEPT ![NotifUser] = r.list]
        /\ IF g.pc = "rejected"
             THEN /\ inflight' = inflight \ {h}
                  /\ activeJobs' = activeJobs \ {<<h.type, h.job.id>>}
             ELSE /\ inflight' = (inflight \ {h}) \cup {g}
                  /\ UNCHANGED activeJobs
  /\ nPub' = nPub + 1
  /\ UNCHANGED <<queue, jobResult, processors, isProcessing, intervalVars,
                 ticks, nClient, returned, outcomes, arrival, stopVars>>
  /\ UNCHANGED <<lastList, lastPoll, lost, reqVars, sessVars, rateVars, slVars, adapterVars, raceVars, now>>

\* no getUserNotifications call made yet
NoList == [threw |-> FALSE, value |-> <<>>, limit |-> 0]

\* getUserNotifications(NotifUser, limit)
GetUserNotifications(limit) ==
  /\ LET r == getUserNotifications(notifs[NotifUser], limit)
     IN lastList' = [threw |-> r.threw, value |-> r.value, limit |-> limit]
  /\ UNCHANGED <<notifs, nPub>>
  /\ UNCHANGED <<reqVars, adapterVars, raceVars, jobVars, sessVars, rateVars, slVars, now>>

\* --------------------------------------------- calls running side by side
Callers == 1..NumCallers

\* a call that is not in progress
IdleCall == [pc |-> "idle", current |-> NoCount]

\* checkRateLimit up to its first await: `await redisService.get(key)`; what
\* the call holds in `current` when it resumes (NoCount: null)
checkRateLimitRead(space, key) ==
  IF isNull(space, key) THEN NoCount ELSE getKey(space, key)

checkRateLimitResumeCountsDenied(space, key, current, limit, window, t) ==
  IF current = NoCount
    THEN [store |-> set(space, key, 1, window, t),
          allowed |-> TRUE, remaining |-> limit - 1]
    ELSE IF Denied(current, limit)
      THEN [store |-> set(space, key, current + 1, window, t),
            allowed |-> FALSE, remaining |-> 0]
      ELSE [store |-> set(space, key, current + 1, window, t),
            allowed |-> TRUE, remaining |-> limit - current - 1]

checkRateLimitResumeAbove(space, key, current, limit, window, t) ==
  IF current = NoCount
    THEN [store |-> set(space, key, 1, window, t),
          allowed |-> TRUE, remaining |-> limit - 1]
    ELSE IF DeniedAbove(current, limit)
      THEN [store |-> space, allowed |-> FALSE, remaining |-> 0]
      ELSE [store |-> set(space, key, current + 1, window, t),
            allowed |-> TRUE, remaining |-> limit - current - 1]

\* checkRateLimit from the resumption after the get to its return, on the
\* store as it is by then
checkRateLimitResume(space, key, current, limit, window, t) ==
  IF current = NoCount
    THEN [store |-> set(space, key, 1, window, t),
          allowed |-> TRUE, remaining |-> limit - 1]
    ELSE IF Denied(current, limit)
      THEN [store |-> space, allowed |-> FALSE, remaining |-> 0]
      ELSE [store |-> set(space, key, current + 1, window, t),
            allowed |-> TRUE, remaining |-> limit - current - 1]

\* caller c starts checkRateLimit(id, rlLimit, rlWindow): the get
RaceRead(c, max) ==
  /\ callers[c].pc = "idle"
  /\ raceCalls < max
  /\ callers' = [callers EXCEPT ![c] =
                   [pc |-> "read",
                    current |-> checkRateLimitRead(rateKeys, rateKey)]]
  /\ raceCalls' = raceCalls + 1
  /\ overlapped' = (overlapped \/ \E d \in Callers \ {c} : callers[d].pc = "read")
  /\ UNCHANGED <<creators, updaters, rateVars>>
  /\ UNCHANGED <<reqVars, jobVars, sessVars, slVars, notifVars, adapterVars, now>>

\* caller c resumes after the get: the test and, when admitted, the set
RaceResume(c) ==
  /\ callers[c].pc = "read"
  /\ LET r == checkRateLimitResume(rateKeys, rateKey, callers[c].current,
                                   rlLimit, rlWindow, now)
     IN /\ rateKeys' = r.store
        /\ admitted' = IF ~r.allowed THEN admitted
                       ELSE IF isNull(rateKeys, rateKey) THEN 1
                       ELSE admitted + 1
  /\ callers' = [callers EXCEPT ![c] = IdleCall]
  /\ UNCHANGED <<rlLimit, rlWindow, firstAccept, lastAccept, lastCall, lastReq>>
  /\ UNCHANGED <<raceCalls, overlapped, creators, updaters>>
  /\ UNCHANGED <<reqVars, jobVars, sessVars, slVars, notifVars, adapterVars, now>>

\* ------------------------------------------- adapter, operation by operation
\* The operations of config/redis.js on this.client, each with its own
\* isConnected test. An operation gives the client it leaves, whether it
\* threw and the number of commands it handed to this.client; the value it
\* returns is not followed here.
AdapterKeys == {"a"}

AdapterFields == {"f"}

AdapterValues == 1..MaxAdapterValue

NoClient ==
  [strings |-> <<>>,
   hashes |-> [k \in AdapterKeys |-> <<>>],
   lists |-> [k \in AdapterKeys |-> <<>>],
   sets |-> [k \in AdapterKeys |-> {}]]

\* throw new Error('Redis not connected'), logged and rethrown
notConnected(c) == [client |-> c, threw |-> TRUE, sent |-> 0]

\* the command went to this.client, which is left as c
handed(c) == [client |-> c, threw |-> FALSE, sent |-> 1]

getOp(c, connected, key) ==
  IF ~connected THEN notConnected(c) ELSE handed(c)

setOp(c, connected, key, value, ttl, t) ==
  IF ~connected THEN notConnected(c)
  ELSE handed([c EXCEPT !.strings = set(@, key, value, ttl, t)])

delOp(c, connected, key) ==
  IF ~connected THEN notConnected(c)
  ELSE handed([c EXCEPT !.strings = delKey(@, key),
                        !.hashes[key] = <<>>,
                        !.lists[key] = <<>>,
                        !.sets[key] = {}])

existsOp(c, connected, key) ==
  IF ~connected THEN notConnected(c) ELSE handed(c)

expireOp(c, connected, key, ttl, t) ==
  IF ~connected THEN notConnected(c)
  ELSE handed([c EXCEPT !.strings =
                 IF key \in DOMAIN @ THEN [@ EXCEPT ![key].exp = t + ttl] ELSE @])

hgetOp(c, connected, key, field) ==
  IF ~connected THEN notConnected(c) ELSE handed(c)

hsetOp(c, connected, key, field, value) ==
  IF ~connected THEN notConnected(c)
  ELSE handed([c EXCEPT !.hashes[key] =
                 [f \in DOMAIN @ \cup {field} |->
                    IF f = field THEN Stringify(value) ELSE @[f]]])

hgetallOp(c, connected, key) ==
  IF ~connected THEN notConnected(c) ELSE handed(c)

hdelOp(c, connected, key, field) ==
  IF ~connected THEN notConnected(c)
  ELSE handed([c EXCEPT !.hashes[key] = [f \in DOMAIN @ \ {field} |-> @[f]]])

lpushOp(c, connected, key, value) ==
  IF ~connected THEN notConnected(c)
  ELSE handed([c EXCEPT !.lists[key] = lpush(@, value)])

rpopOp(c, connected, key) ==
  IF ~connected THEN notConnected(c)
  ELSE handed([c EXCEPT !.lists[key] = rpopRest(@)])

llenOpUnguarded(c, connected, key) ==
  handed(c)

llenOp(c, connected, key) ==
  IF ~connected THEN notConnected(c) ELSE handed(c)

saddOp(c, connected, key, member) ==
  IF ~connected THEN notConnected(c)
  ELSE handed([c EXCEPT !.sets[key] = @ \cup {Stringify(member)}])

smembersOp(c, connected, key) ==
  IF ~connected THEN notConnected(c) ELSE handed(c)

sremOp(c, connected, key, member) ==
  IF ~connected THEN notConnected(c)
  ELSE handed([c EXCEPT !.sets[key] = @ \ {Stringify(member)}])

keysOp(c, connected, pattern) ==
  IF ~connected THEN notConnected(c) ELSE handed(c)

AdapterOps ==
  {"get", "set", "del", "exists", "expire", "hget", "hset", "hgetall", "hdel",
   "lpush", "rpop", "llen", "sadd", "smembers", "srem", "keys"}

\* the operation `op` called with these arguments at second t
adapterCall(op, c, connected, key, field, value, t) ==
  CASE op = "get" -> getOp(c, connected, key)
    [] op = "set" -> setOp(c, connected, key, value, AdapterTtl, t)
    [] op = "del" -> delOp(c, connected, key)
    [] op = "exists" -> existsOp(c, connected, key)
    [] op = "expire" -> expireOp(c, connected, key, AdapterTtl, t)
    [] op = "hget" -> hgetOp(c, connected, key, field)
    [] op = "hset" -> hsetOp(c, connected, key, field, value)
    [] op = "hgetall" -> hgetallOp(c, connected, key)
    [] op = "hdel" -> hdelOp(c, connected, key, field)
    [] op = "lpush" -> lpushOp(c, connected, key, value)
    [] op = "rpop" -> rpopOp(c, connected, key)
    [] op = "llen" -> llenOp(c, connected, key)
    [] op = "sadd" -> saddOp(c, connected, key, value)
    [] op = "smembers" -> smembersOp(c, connected, key)
    [] op = "srem" -> sremOp(c, connected, key, value)
    [] op = "keys" -> keysOp(c, connected, "*")

NoAdapterCall == [op |-> "none", threw |-> FALSE, flip |-> 0]

\* one call of an adapter operation, run to its return
AdapterCall(max) ==
  /\ clientCalls < max
  /\ \E op \in AdapterOps, key \in AdapterKeys, field \in AdapterFields,
        value \in AdapterValues :
       LET r == adapterCall(op, client, isConnected, key, field, value, now)
       IN /\ client' = r.client
          /\ clientCalls' = clientCalls + r.sent
          /\ lastAdapter' = [op |-> op, threw |-> r.threw,
                             flip |-> 1 - lastAdapter.flip]
  /\ UNCHANGED <<reqVars, isConnected, jobVars, sessVars, rateVars, slVars, notifVars,
                 raceVars, now>>

\* the client's 'ready' event
ClientReady ==
  /\ ~isConnected
  /\ isConnected' = TRUE
  /\ UNCHANGED <<client, clientCalls, lastAdapter>>
  /\ UNCHANGED <<reqVars, jobVars, sessVars, rateVars, slVars, notifVars, raceVars, now>>

\* the client's 'error' or 'end' event
ClientEnd ==
  /\ isConnected
  /\ isConnected' = FALSE
  /\ UNCHANGED <<client, clientCalls, lastAdapter>>
  /\ UNCHANGED <<reqVars, jobVars, sessVars, rateVars, slVars, notifVars, raceVars, now>>

\* ------------------------------------------------------------ initial state
\* a request without credentials, about to be resolved
ReqInit ==
  /\ req = [auth |-> "none", claim |-> NoSessionId, cookie |-> NoSessionId,
            header |-> NoSessionId]
  /\ resolved = NotResolved

\* no call in progress
RaceInit ==
  /\ callers = [c \in Callers |-> IdleCall]
  /\ raceCalls = 0
  /\ overlapped = FALSE
  /\ creators = [c \in Creators |-> IdleCreate]
  /\ updaters = [c \in Updaters |-> IdleUpdate]

\* the adapter as constructed: client null, isConnected false
AdapterInit ==
  /\ isConnected = FALSE
  /\ client = NoClient
  /\ clientCalls = 0
  /\ lastAdapter = NoAdapterCall

\* ---------------------------------------------------------- specifications
JobInit ==
  /\ queue = [t \in JobTypeSet |-> <<>>]
  /\ jobResult = <<>>
  /\ processors = [t \in {} |-> "default"]
  /\ isProcessing = FALSE
  /\ intervals = {}
  /\ processingIntervalId = NoInterval
  /\ lastPoll = NoPoll
  /\ lost = {}
  /\ activeJobs = {}
  /\ ticks = [i \in 1..Len(jobTypes) |-> 0]
  /\ inflight = {}
  /\ nClient = 0
  /\ returned = [p \in Payloads |-> NoId]
  /\ outcomes = [p \in Payloads |-> <<>>]
  /\ arrival = [t \in JobTypeSet |-> <<>>]
  /\ stopPc = "idle"
  /\ stopped = FALSE

\* nothing stored, no call made yet
SessInit ==
  /\ sessionKeys = <<>>
  /\ userSessions = [u \in Users |-> {}]
  /\ nSess = 0
  /\ lastEvict = {}
  /\ lastOp = NoOp

\* no request has passed through a limiter yet
NoRequest ==
  [limiter |-> "none", fail |-> "none", threw |-> FALSE, status |-> "",
   nexts |-> 0, headers |-> FALSE, remaining |-> NoCount, flip |-> 0]

\* no checkRateLimit call made yet
NoCall ==
  [found |-> NoCount, allowed |-> FALSE, remaining |-> 0, sinceFirst |-> NoTime,
   sinceLast |-> NoTime, prior |-> 0]

RateIdle ==
  /\ rateKeys = <<>>
  /\ admitted = 0
  /\ firstAccept = NoTime
  /\ lastAccept = NoTime
  /\ lastCall = NoCall
  /\ lastReq = NoRequest

SlInit ==
  /\ slKeys = <<>>
  /\ slLog = <<>>

NotifInit ==
  /\ notifs = [u \in Users |-> <<>>]
  /\ nPub = 0
  /\ lastList = NoList

Init ==
  /\ JobInit /\ SessInit /\ RateIdle /\ SlInit /\ NotifInit /\ AdapterInit
  /\ RaceInit /\ ReqInit
  /\ configTtl = sessionTtl
  /\ rlLimit = 1 /\ rlWindow = 1
  /\ now = 0

Next ==
  \/ EnqueueJob(MaxJobs, {jobTypes[1], jobTypes[3]}, {0, 1})
  \/ StartProcessing
  \/ TickFire(MaxTicks)
  \/ \E i \in 1..Len(jobTypes) : TickDequeue(i)
  \/ \E h \in inflight, o \in {"ok", "failed"} : HandlerSettle(h, o, {})
  \/ \E h \in inflight : ProcessJobResume(h)

Spec == Init /\ [][Next]_vars

\* The interval keeps firing, the store answers every call it was sent and
\* every handler's promise settles.
FairSpec ==
  /\ Spec
  /\ WF_vars(TickFire(MaxTicks))
  /\ WF_vars(\E i \in 1..Len(jobTypes) : TickDequeue(i))
  /\ WF_vars(\E h \in inflight, o \in {"ok", "failed"} : HandlerSettle(h, o, {}))
  /\ WF_vars(\E h \in inflight : ProcessJobResume(h))

\* The same with the outcomes of the first job's handler remembered.
NextRetry ==
  \/ EnqueueJob(RetryJobs, {jobTypes[1], jobTypes[3]}, {0, 1})
  \/ StartProcessing
  \/ TickFire(MaxTicks)
  \/ \E i \in 1..Len(jobTypes) : TickDequeue(i)
  \/ \E h \in inflight, o \in {"ok", "failed"} : HandlerSettle(h, o, Tracked)
  \/ \E h \in inflight : ProcessJobResume(h)

SpecRetry == Init /\ [][NextRetry]_vars

\* The processor under load: a client fills one queue and the handlers are
\* slow; those of the first CapSettling jobs settle within the run.
NextCap ==
  \/ EnqueueJob(CapJobs, {jobTypes[1]}, {0})
  \/ StartProcessing
  \/ TickFire(CapTicks)
  \/ \E i \in 1..Len(jobTypes) : TickDequeue(i)
  \/ \E h \in inflight, o \in {"ok", "failed"} :
       h.job.data <= CapSettling /\ HandlerSettle(h, o, {})
  \/ \E h \in inflight : ProcessJobResume(h)

SpecCap == Init /\ [][NextCap]_vars

\* The processor polling while the store comes and goes: any dequeue can
\* fail.
NextPoll ==
  \/ EnqueueJob(PollJobs, {jobTypes[1], jobTypes[3]}, {0})
  \/ StartProcessing
  \/ TickFire(PollTicks)
  \/ \E i \in 1..Len(jobTypes) : TickDequeue(i)
  \/ \E i \in 1..Len(jobTypes) : TickDequeueFails(i)
  \/ \E h \in inflight, o \in {"ok", "failed"} : HandlerSettle(h, o, {})
  \/ \E h \in inflight : ProcessJobResume(h)

SpecPoll == Init /\ [][NextPoll]_vars

\* The processor started, stopped and started again while jobs come in.
NextStop ==
  \/ EnqueueJob(StopJobs, {jobTypes[1]}, {0})
  \/ StartProcessing
  \/ StopProcessing
  \/ StopProcessingAgain
  \/ StopReturn
  \/ TickFire(StopTicks)
  \/ \E i \in 1..Len(jobTypes) : TickDequeue(i)
  \/ \E h \in inflight, o \in {"ok", "failed"} : HandlerSettle(h, o, {})
  \/ \E h \in inflight : ProcessJobResume(h)

SpecStop == Init /\ [][NextStop]_vars

\* processJobs called on a processor that was never started: no handler is
\* registered for any type.
NextDirect ==
  \/ EnqueueJob(DirectJobs, {jobTypes[1], jobTypes[3]}, {0, 1})
  \/ CallProcessJobs(DirectTicks)
  \/ \E i \in 1..Len(jobTypes) : TickDequeue(i)
  \/ \E h \in inflight : ProcessJobResume(h)

SpecDirect == Init /\ [][NextDirect]_vars

NextSession ==
  \/ \E u \in Users : CreateSession(u)
  \/ \E id \in 1..nSess : UpdateSession(id)
  \/ \E id \in 1..nSess : DestroySession(id)
  \/ AdvanceClock(SessStep, SessHorizon)

SpecSession == Init /\ [][NextSession]_vars

\* handlers of the application's own registered for two of the types, before
\* or after startProcessing, and jobs of those types processed
NextRegister ==
  \/ \E t \in RegisterTypes : RegisterProcessor(t, "custom")
  \/ StartProcessing
  \/ EnqueueJob(RegisterJobs, RegisterTypes, {0})
  \/ TickFire(RegisterTicks)
  \/ \E i \in 1..Len(jobTypes) : TickDequeue(i)
  \/ \E h \in inflight, o \in {"ok", "failed"} : HandlerSettle(h, o, {})
  \/ \E h \in inflight : ProcessJobResume(h)

SpecRegister == Init /\ [][NextRegister]_vars

\* jobs whose handlers fail, with the store failing some of the retries
NextLost ==
  \/ EnqueueJob(LostJobs, {jobTypes[1], jobTypes[2]}, {0})
  \/ StartProcessing
  \/ TickFire(LostTicks)
  \/ \E i \in 1..Len(jobTypes) : TickDequeue(i)
  \/ \E h \in inflight, o \in {"ok", "failed"} : HandlerSettle(h, o, {})
  \/ \E h \in inflight : ProcessJobResume(h)
  \/ \E h \in inflight : ProcessJobResumeFails(h)

SpecLost == Init /\ [][NextLost]_vars

\* The processor started and stopped, with jobs dispatched before the start
\* (no handler registered yet), handlers that succeed or fail and a store
\* that fails some of the retries. While a stopProcessing call waits the
\* application calls neither startProcessing nor processJobs.
NextDrain ==
  \/ EnqueueJob(DrainJobs, {jobTypes[1]}, {0})
  \/ stopPc = "idle" /\ StartProcessing
  \/ stopPc = "idle" /\ ~isProcessing /\ CallProcessJobs(DrainTicks)
  \/ StopProcessing
  \/ StopReturn
  \/ TickFire(DrainTicks)
  \/ \E i \in 1..Len(jobTypes) : TickDequeue(i)
  \/ \E h \in inflight, o \in {"ok", "failed"} : HandlerSettle(h, o, {})
  \/ \E h \in inflight : ProcessJobResume(h)
  \/ \E h \in inflight : ProcessJobResumeFails(h)

SpecDrain == Init /\ [][NextDrain]_vars

\* Every handler's promise settles, the store answers every call it was sent
\* (with a reply or an error) and the timer of the wait loop fires.
FairDrain ==
  /\ SpecDrain
  /\ WF_vars(\E i \in 1..Len(jobTypes) : TickDequeue(i))
  /\ WF_vars(\E h \in inflight, o \in {"ok", "failed"} : HandlerSettle(h, o, {}))
  /\ WF_vars(\E h \in inflight : ProcessJobResume(h) \/ ProcessJobResumeFails(h))
  /\ WF_vars(StopReturn)

\* processJobs calls that overlap on one queue
NextOverlap ==
  \/ EnqueueJob(OverlapJobs, {jobTypes[1]}, {0})
  \/ StartProcessing
  \/ TickFire(OverlapTicks)
  \/ \E i \in 1..Len(jobTypes) : TickDequeue(i)
  \/ \E h \in inflight, o \in {"ok", "failed"} : HandlerSettle(h, o, {})
  \/ \E h \in inflight : ProcessJobResume(h)

SpecOverlap == Init /\ [][NextOverlap]_vars

\* jobs processed by the processor's processJob and by the service's
NextEquiv ==
  \/ EnqueueJob(EquivJobs, {jobTypes[1]}, {0})
  \/ StartProcessing
  \/ TickFire(EquivTicks)
  \/ \E i \in 1..Len(jobTypes) : TickDequeue(i)
  \/ \E h \in inflight, o \in {"ok", "failed"} : HandlerSettle(h, o, {})
  \/ \E h \in inflight : ProcessJobResume(h)
  \/ \E t \in JobTypeSet, o \in {"ok", "failed"} : ServiceProcessJob(t, o)

SpecEquiv == Init /\ [][NextEquiv]_vars

\* Requests of every shape, each resolved by extractSessionId.
NextExtract ==
  \/ NewRequest
  \/ ExtractSessionId

SpecExtract == Init /\ [][NextExtract]_vars

\* createSession calls for one user that run side by side, each suspended
\* between its read of the sessions, its deletions and its write.
NextCreateRace ==
  \/ \E c \in Creators : CreateRead(c, "u1")
  \/ \E c \in Creators : CreateDelete(c)
  \/ \E c \in Creators : CreateStore(c)

SpecCreateRace == Init /\ [][NextCreateRace]_vars

\* Sessions under request traffic, with SESSION_TTL unset or set to
\* ShortTtl seconds.
InitExpiry ==
  /\ JobInit /\ SessInit /\ RateIdle /\ SlInit /\ NotifInit /\ AdapterInit
  /\ RaceInit /\ ReqInit
  /\ configTtl \in {ShortTtl, sessionTtl}
  /\ rlLimit = 1 /\ rlWindow = 1
  /\ now = 0

NextExpiry ==
  \/ \E u \in Users : nSess < ExpiryIds /\ CreateSession(u)
  \/ \E id \in 1..nSess : UpdateSession(id)
  \/ \E id \in 0..nSess, fail \in StoreCalls \cup {"none"} :
       SessionMiddleware(id, fail)
  \/ \E id \in 1..nSess : RefreshSession(id)
  \/ \E id \in 1..nSess : DestroySessionCall(id)
  \/ \E u \in Users : DestroyUserSessions(u)
  \/ CleanupExpiredSessions
  \/ AdvanceClock(SessStep, SessHorizon)

SpecExpiry == InitExpiry /\ [][NextExpiry]_vars

\* updateSession calls suspended between their read and their write while
\* sessions are destroyed
NextDestroyRace ==
  \/ \E u \in Users : nSess < DestroyRaceIds /\ CreateSession(u)
  \/ \E c \in Updaters, id \in 1..nSess, ttl \in {updateTtl, configTtl} :
       UpdateRead(c, id, ttl)
  \/ \E c \in Updaters : UpdateWrite(c)
  \/ \E id \in 1..nSess : DestroySessionCall(id)
  \/ AdvanceClock(SessStep, SessStep)

SpecDestroyRace == InitExpiry /\ [][NextDestroyRace]_vars

\* The fixed-window limiter, called with any limit and window within the
\* bounds on one identifier, second by second.
InitRate ==
  /\ JobInit /\ SessInit /\ RateIdle /\ SlInit /\ NotifInit /\ AdapterInit
  /\ RaceInit /\ ReqInit
  /\ rlLimit \in 0..MaxLimit /\ rlWindow \in 0..MaxWindow
  /\ configTtl = sessionTtl
  /\ now = 0

NextRate ==
  \/ CheckRateLimit
  \/ ResetRateLimit
  \/ AdvanceClock(1, MaxNow)

SpecRate == InitRate /\ [][NextRate]_vars

\* The adapter called directly, operation by operation, the connection
\* coming and going in between.
NextAdapter ==
  \/ AdapterCall(MaxAdapterCalls)
  \/ ClientReady
  \/ ClientEnd

SpecAdapter == Init /\ [][NextAdapter]_vars

\* Requests of one user through the four limiter middlewares, the store
\* failing at any of their calls.
InitLimiter ==
  /\ JobInit /\ SessInit /\ RateIdle /\ SlInit /\ NotifInit /\ AdapterInit
  /\ RaceInit /\ ReqInit
  /\ rlLimit \in 1..LimiterLimit /\ rlWindow \in 1..LimiterWindow
  /\ configTtl = sessionTtl
  /\ now = 0

NextLimiter ==
  \/ \E fail \in LimiterFails : LimiterRequest(fail)
  \/ \E fail \in LimiterFails : CustomLimiterRequest(fail)
  \/ \E fail \in BurstFails : BurstLimiterRequest(BurstLimit, fail)
  \/ \E fail \in LimiterFails : SlidingLimiterRequest(3, 60, fail)
  \/ AdvanceClock(1, LimiterNow)

SpecLimiter == InitLimiter /\ [][NextLimiter]_vars

\* checkRateLimit calls on one identifier that run side by side, each
\* suspended between its get and its set.
NextRace ==
  \/ \E c \in Callers : RaceRead(c, MaxRaceCalls)
  \/ \E c \in Callers : RaceResume(c)

SpecRace == InitLimiter /\ [][NextRace]_vars

\* the same with resetRateLimit calls and the counter's expiry in between
NextRaceReset ==
  \/ \E c \in Callers : RaceRead(c, ResetRaceCalls)
  \/ \E c \in Callers : RaceResume(c)
  \/ ResetRateLimit
  \/ AdvanceClock(1, LimiterNow)

SpecRaceReset == InitLimiter /\ [][NextRaceReset]_vars

\* createSlidingWindowLimiter(3, 60) on the requests of one identifier
SlSteps == {10, 31}

NextSliding ==
  \/ SlidingRequest(3, 60, MaxRequests)
  \/ \E d \in SlSteps : AdvanceClock(d, SlHorizon)

SpecSliding == Init /\ [][NextSliding]_vars

\* notifications published for one user and read back
NextNotify ==
  \/ PublishNotification(MaxPublish)
  \/ \E limit \in {10, 50} : GetUserNotifications(limit)

SpecNotify == Init /\ [][NextNotify]_vars

\* notification jobs from the client's enqueueJob to the user's list
NextDeliver ==
  \/ EnqueueJob(DeliverJobs, {"notification"}, {0})
  \/ StartProcessing
  \/ TickFire(DeliverTicks)
  \/ \E i \in 1..Len(jobTypes) : TickDequeue(i)
  \/ \E h \in inflight : NotificationSettle(h, DeliverPublish)
  \/ \E h \in inflight : ProcessJobResume(h)

SpecDeliver == Init /\ [][NextDeliver]_vars

\* ------------------------------------------------------------ job claims
Waiting(p) ==
  \E t \in JobTypeSet : \E i \in 1..Len(queue[t]) : Parse(queue[t][i]).data = p

Busy(p) == \E h \in inflight : h.job.data = p

\* the job_result entries stored for the job with payload p, retries included
ResultsOf(p) ==
  {getKey(jobResult, i).status : i \in {k \in DOMAIN jobResult : k[1] = p}}

AllFailed(hist) == \A i \in 1..Len(hist) : hist[i] = "failed"

Terminal(r) == "status" \in DOMAIN r /\ r.status \in {"completed", "failed"}

\* C1: a job whose handler fails on every dispatch is dispatched at most
\* maxAttempts times; once the maxAttempts-th failure is handled a job_result
\* 'failed' is stored for it and it neither waits nor runs again.
C1_AlwaysFailingJobEndsFailed ==
  \A p \in Tracked :
    AllFailed(outcomes[p]) =>
      /\ Len(outcomes[p]) <= maxAttempts
      /\ (Len(outcomes[p]) = maxAttempts /\ ~Busy(p)) =>
            (ResultsOf(p) = {"failed"} /\ ~Waiting(p))

\* C2: a job whose handler fails on its first dispatch and succeeds on its
\* second has, once that dispatch is over, exactly one job_result, with status
\* 'completed', and is not dequeued or dispatched after the success.
C2_FailThenSucceedCompletesOnce ==
  \A p \in Tracked :
    (Len(outcomes[p]) >= 2 /\ outcomes[p][1] = "failed" /\ outcomes[p][2] = "ok") =>
      /\ Len(outcomes[p]) = 2
      /\ ~Waiting(p)
      /\ ~Busy(p) => ResultsOf(p) = {"completed"}
      /\ \A h \in inflight : h.job.data = p => h.pc = "set_completed"

\* C3: with the processor running, every job a client enqueued eventually has
\* a terminal result that getJobStatus returns for the id enqueueJob returned.
C3_EveryJobGetsTerminalStatus ==
  \A p \in 1..MaxJobs :
    (returned[p] # NoId /\ isProcessing) ~> Terminal(getJobStatus(returned[p]))

\* C11: once stopProcessing has returned, and until startProcessing is called
\* again, the active-job set is empty and no job is dequeued or dispatched,
\* also when a processJobs call was suspended on its dequeue during the stop.
C11_NoDispatchAfterStopReturns ==
  [][(stopped /\ stopped') =>
       /\ activeJobs' = {}
       /\ inflight' \subseteq inflight
       /\ \A t \in JobTypeSet : Len(arrival'[t]) >= Len(arrival[t])]_vars

\* C12: a job dequeued for a type without a registered handler is not
\* retried: the dispatch ends there, the job is not put back on its queue.
C12_NoRetryWithoutHandler ==
  [][\A t \in JobTypeSet :
       (t \notin DOMAIN processors /\ Len(arrival'[t]) < Len(arrival[t])) =>
         \A h \in inflight' \ inflight : h.pc # "requeue"]_vars

\* C10: the number of in-flight jobs never exceeds maxConcurrentJobs, also
\* when a poll tick fires while an earlier processJobs call awaits a dequeue.
C10_ActiveJobsWithinCap == Cardinality(activeJobs) <= maxConcurrentJobs

\* C9: within one type jobs leave the queue in the order they arrived,
\* whatever their priorities: each dequeue takes the job that has waited
\* longest, so a re-enqueued job is taken after every job that was waiting
\* when it was put back.
C9_DequeueInArrivalOrder ==
  [][\A t \in JobTypeSet :
       Len(arrival'[t]) < Len(arrival[t]) => arrival'[t] = Tail(arrival[t])]_vars

\* a re-enqueued job of higher priority waits behind a job of lower priority
\* that arrived before it was put back
C9_Witness ==
  \E t \in JobTypeSet :
    /\ Len(queue[t]) = 2
    /\ Parse(queue[t][1]).id[2] > 0
    /\ Parse(queue[t][1]).priority > Parse(queue[t][2]).priority
    /\ arrival[t] = <<Parse(queue[t][2]).id, Parse(queue[t][1]).id>>

\* -------------------------------------------------------- session claims
LiveSessions(u) ==
  {id \in DOMAIN sessionKeys : getKey(sessionKeys, id).userId = u}

\* C4: a user never has more than maxSessions live sessions, and a
\* createSession that evicts leaves maxSessions - 1 of the earlier sessions,
\* none of them less recently active than a session it removed.
C4_AtMostMaxSessionsOldestEvicted ==
  [][\A u \in Users :
       /\ Cardinality(LiveSessions(u))' <= maxSessions
       /\ (nSess' = nSess + 1 /\ LiveSessions(u) \ LiveSessions(u)' # {}) =>
            /\ Cardinality(LiveSessions(u) \cap LiveSessions(u)') = maxSessions - 1
            /\ \A r \in LiveSessions(u) \ LiveSessions(u)' :
                 \A k \in LiveSessions(u) \cap LiveSessions(u)' :
                   getKey(sessionKeys, r).lastActivity
                     <= getKey(sessionKeys, k).lastActivity]_vars

\* an eviction removed a session created after one that is still live: the
\* older one had been active since
C4_Witness ==
  \E u \in Users : \E r \in lastEvict, k \in LiveSessions(u) :
    /\ r > k
    /\ Cardinality(LiveSessions(u)) = maxSessions

\* C5: session:<id> exists exactly when <id> is a member of
\* user_sessions:<its userId>.
C5_SessionKeyIffSetMember ==
  \A u \in Users, id \in 1..nSess :
    (Stringify(id) \in userSessions[u]) <=>
      (getKey(sessionKeys, id) # None /\ getKey(sessionKeys, id).userId = u)

\* ----------------------------------------------------- rate-limit claims
\* C6: with limit >= 1, at most limit calls are allowed between the creation
\* of the counter key and its expiry or reset, and a call that finds the
\* stored count at or above limit returns allowed = false and remaining = 0.
C6_AtMostLimitAllowedPerCounter ==
  rlLimit >= 1 =>
    /\ admitted <= rlLimit
    /\ (lastCall.found # NoCount /\ lastCall.found >= rlLimit) =>
         (~lastCall.allowed /\ lastCall.remaining = 0)

\* the counter is used up and the latest call was turned away
C6_Witness ==
  /\ rlLimit >= 2
  /\ admitted = rlLimit
  /\ lastCall.found = rlLimit
  /\ ~lastCall.allowed
  /\ lastCall.remaining = 0

\* C7 as claimed, for a limit and a window of at least 1: a call made more
\* than windowSeconds after the first accepted call of a window returns
\* allowed = true and remaining = limit - 1, whatever calls were accepted in
\* between.
C7_ResetAfterWindowSinceFirstAccept ==
  (rlLimit >= 1 /\ rlWindow >= 1 /\ lastCall.sinceFirst # NoTime
     /\ lastCall.sinceFirst > rlWindow) =>
    (lastCall.allowed /\ lastCall.remaining = rlLimit - 1)

\* C7: with windowSeconds >= 1, a call made more than windowSeconds after the
\* most recent accepted call on the identifier returns allowed = true and
\* remaining = limit - 1.
C7_ResetAfterWindowSinceLastAccept ==
  (rlWindow >= 1 /\ lastCall.sinceLast # NoTime /\ lastCall.sinceLast > rlWindow) =>
    (lastCall.allowed /\ lastCall.remaining = rlLimit - 1)

\* a counter that took several calls over more than a window ran out and the
\* next call started a new one
C7_Witness ==
  /\ rlWindow >= 1
  /\ lastCall.sinceLast > rlWindow
  /\ lastCall.sinceFirst > lastCall.sinceLast
  /\ lastCall.prior >= 2
  /\ lastCall.allowed
  /\ lastCall.remaining = rlLimit - 1
  /\ admitted = 1

\* the requests among the first j logged that were admitted within the
\* window seconds up to the j-th
AdmittedWithin(j, window) ==
  {i \in 1..j : slLog[i].status = "next" /\ slLog[i].t > slLog[j].t - window}

LogTimes == [i \in 1..Len(slLog) |-> slLog[i].t]

IsPrefix(a, b) == Len(a) <= Len(b) /\ a = SubSeq(b, 1, Len(a))

\* C8: through createSlidingWindowLimiter(3, 60) at most 3 requests are
\* admitted in any trailing 60 seconds; requests at t = 0, 10, 20 are admitted,
\* one at t = 30 is denied with 429 and one at t = 61 is admitted.
C8_SlidingWindowAdmitsAtMostLimit ==
  /\ \A j \in 1..Len(slLog) : Cardinality(AdmittedWithin(j, 60)) <= 3
  /\ IsPrefix(LogTimes, <<0, 10, 20, 30, 61>>) =>
       \A i \in 1..Len(slLog) :
         slLog[i].status = IF i = 4 THEN "429" ELSE "next"

\* ---------------------------------------------------- notification claims
Least(a, b) == IF a < b THEN a ELSE b

\* C13: after N publishNotification calls for a user the list holds the
\* min(N, 100) most recent notifications, newest first, and
\* getUserNotifications(userId, limit) returns the first `limit` of those it
\* found.
C13_NotificationListTrimmedTo100 ==
  /\ Len(notifs[NotifUser]) = Least(nPub, maxNotifications)
  /\ \A i \in 1..Len(notifs[NotifUser]) :
       Parse(notifs[NotifUser][i]).id = nPub - i + 1
  /\ ~lastList.threw
  /\ Len(lastList.value) <= lastList.limit

\* the job the client enqueued with payload p has been dequeued, processJob
\* has finished with it and no processJobs call is under way
Handled(p) ==
  /\ returned[p] # NoId
  /\ \A t \in JobTypeSet : \A i \in 1..Len(queue[t]) :
       Parse(queue[t][i]).id # returned[p]
  /\ \A h \in inflight : h.job.id # returned[p]
  /\ NumTicks = 0

\* C14: once the processor has handled an enqueued notification job
\* {userId: u1, message}, getJobStatus for the id enqueueJob returned gives a
\* result with status 'completed' and the list of u1 holds a notification
\* with the message.
C14_NotificationJobCompletes ==
  \A p \in 1..DeliverJobs :
    Handled(p) =>
      /\ LET r == getJobStatus(returned[p])
         IN "status" \in DOMAIN r /\ r.status = "completed"
      /\ \E i \in 1..Len(notifs[NotifUser]) :
           Parse(notifs[NotifUser][i]).message = p

\* ------------------------------------------------ session manager claims
\* the step is a middleware, refresh, destroy or cleanup call
OpStep == lastOp'.flip # lastOp.flip

\* seconds since the stored session's lastActivity
IdleFor(id) == now - getKey(sessionKeys, id).lastActivity

\* session:<id> is stored and has been idle for more than the configured ttl
StoredExpired(id) == id \in DOMAIN sessionKeys /\ IdleFor(id) > configTtl

\* neither session:<id> nor a member <id> of a user's session set is left
Gone(id) ==
  /\ id \notin DOMAIN sessionKeys
  /\ \A u \in Users : Stringify(id) \notin userSessions[u]

\* the same of the store after the step
GoneAfter(id) ==
  /\ id \notin DOMAIN sessionKeys'
  /\ \A u \in Users : Stringify(id) \notin userSessions'[u]

\* C15: a stored session idle for more than ttl is not attached to a request
\* by the middleware, and a refreshSession or cleanupExpiredSessions call
\* that comes upon it deletes its key and its entry in the owner's set.
C15_ExpiredSessionNotAttachedAndSwept ==
  [][OpStep =>
       /\ (lastOp'.op = "middleware" /\ StoredExpired(lastOp'.id)) =>
            (lastOp'.session = None /\ lastOp'.user = "")
       /\ (lastOp'.op = "refresh" /\ StoredExpired(lastOp'.id)) =>
            GoneAfter(lastOp'.id)
       /\ lastOp'.op = "cleanup" =>
            \A id \in DOMAIN sessionKeys : StoredExpired(id) => GoneAfter(id)]_vars

\* the store but for session `id` is the same before and after the step
OthersUnchanged(id) ==
  /\ \A j \in (DOMAIN sessionKeys \cup DOMAIN sessionKeys') \ {id} :
       /\ j \in DOMAIN sessionKeys /\ j \in DOMAIN sessionKeys'
       /\ sessionKeys'[j] = sessionKeys[j]
  /\ \A u \in Users :
       userSessions'[u] \ {Stringify(id)} = userSessions[u] \ {Stringify(id)}

\* C16: refreshSession(sessionId) ends in one of three ways: 'Session not
\* found' with nothing changed when the key is absent; 'Session expired' with
\* the session deleted when it has been idle for more than ttl; otherwise
\* lastActivity is now and the session is stored again with the configured
\* ttl. No other session changes.
C16_RefreshSessionThreeOutcomes ==
  [][(OpStep /\ lastOp'.op = "refresh") =>
       LET id == lastOp'.id
       IN /\ OthersUnchanged(id)
          /\ id \notin DOMAIN sessionKeys =>
               /\ lastOp'.result = "Session not found"
               /\ sessionKeys' = sessionKeys /\ userSessions' = userSessions
          /\ StoredExpired(id) =>
               (lastOp'.result = "Session expired" /\ GoneAfter(id))
          /\ (id \in DOMAIN sessionKeys /\ ~StoredExpired(id)) =>
               /\ lastOp'.result = "ok"
               /\ userSessions' = userSessions
               /\ id \in DOMAIN sessionKeys'
               /\ sessionKeys'[id].exp = now + configTtl
               /\ getKey(sessionKeys', id) =
                    [getKey(sessionKeys, id) EXCEPT !.lastActivity = now]]_vars

\* a refresh came upon a session idle for more than ttl and removed it
C16_Witness ==
  /\ lastOp.op = "refresh"
  /\ lastOp.result = "Session expired"
  /\ Gone(lastOp.id)
  /\ configTtl = ShortTtl

\* C17: destroySession returns the number of keys it removed, and again on
\* the same id it returns 0 and changes nothing; after destroyUserSessions
\* the user has no live session and no member in the session set, and the
\* count returned is the number of session keys deleted.
C17_DestroyIdempotentAndCounted ==
  [][OpStep =>
       /\ lastOp'.op = "destroy" =>
            /\ lastOp'.count = Cardinality(DOMAIN sessionKeys \ DOMAIN sessionKeys')
            /\ (lastOp.op = "destroy" /\ lastOp.id = lastOp'.id) =>
                 /\ lastOp'.count = 0
                 /\ sessionKeys' = sessionKeys /\ userSessions' = userSessions
       /\ lastOp'.op = "destroyUser" =>
            /\ lastOp'.count = Cardinality(DOMAIN sessionKeys \ DOMAIN sessionKeys')
            /\ \A id \in DOMAIN sessionKeys' :
                 getKey(sessionKeys', id).userId # lastOp'.user
            /\ userSessions'[lastOp'.user] = {}]_vars

\* the request's session is stored and has not been idle for more than ttl
LiveSession(id) ==
  id # NoSessionId /\ id \in DOMAIN sessionKeys /\ IdleFor(id) <= configTtl

\* the store call named failed in the request: it was reached and it threw
CallFailed(id, fail) ==
  \/ fail = "getSession" /\ id # NoSessionId
  \/ fail = "deleteSession" /\ StoredExpired(id)
  \/ fail = "updateSession" /\ LiveSession(id)

\* C18: the middleware calls next() exactly once on every request, and
\* req.session is null and no user is attached whenever the request has no
\* live session or one of the middleware's store calls failed.
C18_MiddlewareNeverFailsRequest ==
  [][(OpStep /\ lastOp'.op = "middleware") =>
       /\ lastOp'.nexts = 1
       /\ (~LiveSession(lastOp'.id) \/ CallFailed(lastOp'.id, lastOp'.result)) =>
            (lastOp'.session = None /\ lastOp'.user = "")]_vars

\* a request with a live session went through without it: updateSession threw
C18_Witness ==
  /\ lastOp.op = "middleware"
  /\ lastOp.result = "updateSession"
  /\ LiveSession(lastOp.id)
  /\ lastOp.session = None /\ lastOp.user = ""
  /\ lastOp.nexts = 1

\* C19: a cleanupExpiredSessions call among the other session calls deletes
\* only sessions idle for more than ttl at that moment and returns the number
\* it deleted.
C19_CleanupDeletesOnlyExpiredAndCounts ==
  [][(OpStep /\ lastOp'.op = "cleanup") =>
       /\ lastOp'.result = "returned"
       /\ lastOp'.count = Cardinality(DOMAIN sessionKeys \ DOMAIN sessionKeys')
       /\ \A id \in DOMAIN sessionKeys \ DOMAIN sessionKeys' :
            StoredExpired(id)]_vars

\* ------------------------------------------------------- limiter claims
\* C20: a request during which a store call of its limiter fails is let
\* through, whichever of the four limiters it is: next() is called exactly
\* once and no 429 is sent.
C20_LimitersFailOpen ==
  lastReq.threw => (lastReq.status = "next" /\ lastReq.nexts = 1)

\* the store failed on a request the limiter was about to turn away: the
\* counter of createLimiter stood at the limit
C20_Witness ==
  /\ lastReq.limiter = "createLimiter"
  /\ lastReq.threw
  /\ lastReq.status = "next"
  /\ rlLimit >= 1
  /\ ~isNull(rateKeys, rateLimitKey(getIdentifier("api")))
  /\ getKey(rateKeys, rateLimitKey(getIdentifier("api"))) >= rlLimit

\* C21: every request a limiter decides with the store answering, admitted
\* or denied with 429, has the X-RateLimit metadata set on its response.
C21_LimitersSetMetadata ==
  (lastReq.limiter # "none" /\ lastReq.fail = "none") => lastReq.headers

\* what a fixed-window check of `key` against `limit` answers in this state
CheckAllowed(key, limit) ==
  isNull(rateKeys, key) \/ getKey(rateKeys, key) < limit

CheckRemaining(key, limit) ==
  IF isNull(rateKeys, key) THEN limit - 1
  ELSE IF getKey(rateKeys, key) < limit THEN limit - getKey(rateKeys, key) - 1
  ELSE 0

BurstBaseKey == rateLimitKey(getIdentifier("burst"))

ReqStep(name) ==
  /\ lastReq'.flip # lastReq.flip
  /\ lastReq'.limiter = name
  /\ lastReq'.fail = "none"

\* C22: createBurstLimiter admits a request exactly when the base check
\* (window seconds) and the burst check (60 seconds, key <identifier>:burst)
\* both allow it, and the remaining it reports is the smaller of the two
\* checks' remaining values.
C22_BurstAdmitsIffBothAllow ==
  [][ReqStep("createBurstLimiter") =>
       LET base == CheckAllowed(BurstBaseKey, rlLimit)
           burst == CheckAllowed(burstKey, BurstLimit)
           baseLeft == CheckRemaining(BurstBaseKey, rlLimit)
           burstLeft == CheckRemaining(burstKey, BurstLimit)
       IN /\ (lastReq'.status = "next") <=> (base /\ burst)
          /\ (lastReq'.status = "429") <=> ~(base /\ burst)
          /\ lastReq'.remaining = IF baseLeft < burstLeft THEN baseLeft
                                  ELSE burstLeft
          /\ base => rateKeys'[BurstBaseKey].exp = now + rlWindow
          /\ burst => rateKeys'[burstKey].exp = now + 60]_vars

\* a request turned away by the burst check alone: the base counter is below
\* its limit, the burst counter is full
C22_Witness ==
  /\ lastReq.limiter = "createBurstLimiter"
  /\ lastReq.fail = "none"
  /\ lastReq.status = "429"
  /\ ~isNull(rateKeys, BurstBaseKey)
  /\ getKey(rateKeys, BurstBaseKey) < rlLimit
  /\ ~isNull(rateKeys, burstKey)
  /\ getKey(rateKeys, burstKey) >= BurstLimit

\* ------------------------------------------------------- adapter claims
AdapterStep == lastAdapter'.flip # lastAdapter.flip

\* C23: an adapter operation called while the connection is not established
\* throws, and hands no command to the underlying client: nothing is read
\* and nothing is written.
C23_NotConnectedThrowsAndTouchesNothing ==
  [][(AdapterStep /\ ~isConnected) =>
       /\ lastAdapter'.threw
       /\ clientCalls' = clientCalls
       /\ client' = client]_vars

\* a list operation called after the connection was lost, with data stored
\* earlier still in the client
C23_Witness ==
  /\ ~isConnected
  /\ lastAdapter.op = "llen"
  /\ lastAdapter.threw
  /\ clientCalls > 0
  /\ client.lists["a"] # <<>>

\* ----------------------------------------------------- retry and ownership
\* C24: when a failed dispatch is retried, the entry put back on the type's
\* queue is the same job: it has the id of the dequeued entry and attempts
\* one greater than the dequeued entry had (the incremented value the catch
\* block computed).
C24_RetryKeepsIdAndIncrementsAttempts ==
  [][\A h \in inflight :
       (h.pc = "requeue" /\ h \notin inflight') =>
          LET entry == Parse(queue'[h.type][1])
          IN /\ entry.id = h.job.id
             /\ entry.attempts = h.job.attempts]_vars

InQueue(id) ==
  \E t \in JobTypeSet : \E i \in 1..Len(queue[t]) : Parse(queue[t][i]).id = id

InActiveSet(id) == \E t \in JobTypeSet : <<t, id>> \in activeJobs

Finished(id) == id \in DOMAIN jobResult

Places(id) ==
  (IF InQueue(id) THEN 1 ELSE 0) + (IF InActiveSet(id) THEN 1 ELSE 0)
    + (IF Finished(id) THEN 1 ELSE 0)

\* C25: a job a client enqueued is at each moment in exactly one place:
\* waiting in its type's queue, in the processor's active set, or finished
\* with a job_result; it is never in two places and never in none.
C25_EveryJobInExactlyOnePlace ==
  \A p \in Payloads : returned[p] # NoId => Places(returned[p]) = 1

\* ---------------------------------------------------- overlapping calls
\* C26: more calls than `limit` are allowed within one lifetime of the
\* counter only when checkRateLimit calls overlapped, one reading the counter
\* while another was between its read and its write; such a state is
\* reachable (C26_Witness).
C26_ExtraAdmissionsOnlyWhenOverlapped ==
  (~isNull(rateKeys, rateKey) /\ admitted > rlLimit) => overlapped

\* more admissions than the limit while the counter key lives
C26_Witness ==
  /\ ~isNull(rateKeys, rateKey)
  /\ admitted > rlLimit
  /\ getKey(rateKeys, rateKey) <= rlLimit

\* C27 as claimed: with createSession calls for one user interleaved between
\* their store operations the user never has more than maxSessions live
\* sessions.
C27_InterleavedCreateKeepsCap ==
  \A u \in Users : Cardinality(LiveSessions(u)) <= maxSessions

\* C27, amended: with createSession calls interleaved the user can have more
\* than maxSessions live sessions, but only after calls overlapped, one
\* reading the sessions while another was between its read and its write.
C27_CapExceededOnlyWhenOverlapped ==
  \A u \in Users : Cardinality(LiveSessions(u)) > maxSessions => overlapped

\* two calls read the same sessions and both stored theirs
C27_Witness ==
  /\ Cardinality(LiveSessions("u1")) > maxSessions
  /\ \A c \in Creators : creators[c].pc = "idle"

\* ------------------------------------------------------ the polling interval
\* C28: at most one polling interval is scheduled at any time: one, the one
\* this.processingIntervalId names, while the processor is running and none
\* while it is not, also while a stopProcessing call waits for active jobs.
C28_AtMostOneInterval ==
  /\ Cardinality(intervals) <= 1
  /\ intervals = IF isProcessing THEN {processingIntervalId} ELSE {}

\* the processor was started again while a stopProcessing call still waits
C28_Witness ==
  /\ stopPc = "waiting"
  /\ isProcessing
  /\ Cardinality(intervals) = 1
  /\ activeJobs # {}

\* ------------------------------------------------------------ failed polls
PollFailed == lastPoll'.flip # lastPoll.flip

\* C29: a processJobs call whose dequeue fails ends there without throwing:
\* the processor stays running with its interval scheduled, the jobs it has
\* dispatched stay in flight, nothing is taken from a queue, and the interval
\* can fire again.
C29_FailedDequeueEndsTickOnly ==
  [][PollFailed =>
       /\ NumTicks' = NumTicks - 1
       /\ isProcessing' /\ isProcessing
       /\ intervals' = intervals /\ intervals' # {}
       /\ inflight' = inflight
       /\ activeJobs' = activeJobs
       /\ queue' = queue
       /\ jobResult' = jobResult]_vars

\* the dequeue of a later type failed in a tick that had already dispatched
\* a job, which is still in flight
C29_Witness ==
  /\ lastPoll.index >= 2
  /\ inflight # {}
  /\ isProcessing
  /\ intervals # {}
  /\ NumTicks = 0

\* ------------------------------------------------------- extractSessionId
\* C30 as claimed: the id comes from the verified token's sessionId claim,
\* else from the cookie, else from the x-session-id header, and a Bearer token
\* that fails verification gives none whatever the cookie and header carry.
C30_BadTokenResolvesToNone ==
  resolved # NotResolved =>
    /\ (req.auth = "bearer-valid" /\ req.claim # NoSessionId) =>
         resolved = req.claim
    /\ req.auth = "bearer-invalid" => resolved = NoSessionId
    /\ req.auth \in {"none", "basic"} =>
         resolved = IF req.cookie # NoSessionId THEN req.cookie ELSE req.header

\* C30, amended: a verified Bearer token decides alone (its sessionId claim,
\* none if it has no such claim); without a Bearer token, and also with one
\* that fails verification, the id is the cookie's, else the header's, else
\* none.
C30_BadTokenFallsThroughToCookie ==
  resolved # NotResolved =>
    /\ req.auth = "bearer-valid" => resolved = req.claim
    /\ req.auth # "bearer-valid" =>
         resolved = IF req.cookie # NoSessionId THEN req.cookie ELSE req.header

\* a request with a rejected token, a cookie and a different header: the
\* cookie's id is returned
C30_Witness ==
  /\ req.auth = "bearer-invalid"
  /\ req.cookie # NoSessionId
  /\ req.header # NoSessionId
  /\ req.header # req.cookie
  /\ resolved = req.cookie

\* ------------------------------------------------------ registerProcessor
\* C31: a handler registered for a job type before startProcessing is still
\* the handler of that type after startProcessing (starting the processor
\* changes no handler registered before), and it is the handler a job of
\* that type is dispatched to.
C31_StartKeepsRegisteredHandlers ==
  [][(~isProcessing /\ isProcessing') =>
       \A t \in DOMAIN processors : processors'[t] = processors[t]]_vars

\* ---------------------------------------------------------- destroySession
\* C32: once destroySession(id) has returned, getSession(id) finds no
\* session, also when an updateSession of that session had read it and not
\* yet written it while the destroy ran (stated for the session destroyed
\* last).
C32_DestroyedSessionStaysAbsent ==
  lastOp.op = "destroy" => getKey(sessionKeys, lastOp.id) = None

\* ------------------------------------------------- processJob, store error
\* a job whose processJob call ended in a throw is in no queue, not in the
\* active set and has no job_result
Nowhere(id) == ~InQueue(id) /\ ~InActiveSet(id) /\ ~Finished(id)

\* C33: when the store fails while processJob handles a handler failure, the
\* job leaves the active set, is neither back in its queue nor recorded with
\* a result, and getJobStatus returns absent for it from then on.
C33_LostJobLeavesActiveSetAndStatusAbsent ==
  \A id \in lost : Nowhere(id) /\ getJobStatus(id) = None

\* ------------------------------------------------------------- active set
\* the jobs of the processJob calls in progress
InProgress == {<<h.type, h.job.id>> : h \in inflight}

QueuedIds(t) == [i \in 1..Len(queue[t]) |-> Parse(queue[t][i]).id]

\* no id waits in two entries
NoEntryTwice ==
  \A t, u \in JobTypeSet : \A i \in 1..Len(queue[t]), j \in 1..Len(queue[u]) :
    QueuedIds(t)[i] = QueuedIds(u)[j] => (t = u /\ i = j)

\* C35: a queue entry is handed to at most one processJob call, also when
\* processJobs calls overlap: the dequeue takes the entry out of the queue
\* (no entry waits twice, and none waits while it is being processed), no
\* two calls in progress have the same job, and the step that dequeues an
\* entry starts exactly one call for it.
C35_EntryDispatchedAtMostOnce ==
  /\ [](/\ NoEntryTwice
        /\ \A h \in inflight : ~InQueue(h.job.id)
        /\ \A h, g \in inflight : h.job.id = g.job.id => h = g
        /\ Cardinality(activeJobs) = Cardinality(inflight))
  /\ [][\A t \in JobTypeSet :
          Len(queue'[t]) < Len(queue[t]) =>
            \A id \in {QueuedIds(t)[Len(queue[t])]} :
               /\ Len(queue'[t]) = Len(queue[t]) - 1
               /\ ~InQueue(id)'
               /\ Cardinality({h \in inflight' : h.job.id = id}) = 1
               /\ Cardinality({h \in inflight : h.job.id = id}) = 0]_vars

\* two processJobs calls overlapped and each dequeued an entry of the first
\* type: both are suspended at the second type, both jobs are in progress
C35_Witness ==
  /\ ticks[2] = 2
  /\ Cardinality({h \in inflight : h.type = jobTypes[1]}) = 2

\* ------------------------------------------ the two processJob protocols
\* C36: RedisService.processJob and JobProcessor.processJob (with a handler
\* registered for the type) leave the same queues and the same job_result
\* entries for the same dequeued job and the same handler outcome.
C36_ProcessJobProtocolsAgree ==
  \A t \in DOMAIN processors : \A o \in {"ok", "failed"} :
    queue[t] # <<>> =>
      serviceProcessJob(queue, jobResult, t, o, now)
        = processorProcessJob(queue, jobResult, t, o, now)

Count(space, key) == IF isNull(space, key) THEN 0 ELSE getKey(space, key)

\* C38: createBurstLimiter checks both counters on every request, each on
\* its own: a counter below its limit is incremented and gets a new time to
\* live (window seconds for the base counter, 60 for the burst counter) also
\* when the other counter is exhausted and the request is rejected; an
\* exhausted counter is left as it is.
C38_BurstCountersIndependent ==
  [][ReqStep("createBurstLimiter") =>
       /\ CheckAllowed(BurstBaseKey, rlLimit) =>
            /\ Count(rateKeys', BurstBaseKey) = Count(rateKeys, BurstBaseKey) + 1
            /\ rateKeys'[BurstBaseKey].exp = now + rlWindow
       /\ ~CheckAllowed(BurstBaseKey, rlLimit) =>
            rateKeys'[BurstBaseKey] = rateKeys[BurstBaseKey]
       /\ CheckAllowed(burstKey, BurstLimit) =>
            /\ Count(rateKeys', burstKey) = Count(rateKeys, burstKey) + 1
            /\ rateKeys'[burstKey].exp = now + 60
       /\ ~CheckAllowed(burstKey, BurstLimit) =>
            rateKeys'[burstKey] = rateKeys[burstKey]
       /\ (CheckAllowed(BurstBaseKey, rlLimit) # CheckAllowed(burstKey, BurstLimit)) =>
            lastReq'.status = "429"]_vars

\* a request turned away by the base check alone has incremented the burst
\* counter and renewed its time to live
C38_Witness ==
  /\ lastReq.limiter = "createBurstLimiter"
  /\ lastReq.fail = "none"
  /\ lastReq.status = "429"
  /\ Count(rateKeys, BurstBaseKey) >= rlLimit
  /\ Count(rateKeys, burstKey) >= 2
  /\ Count(rateKeys, burstKey) < BurstLimit
  /\ rateKeys[burstKey].exp = now + 60

\* ------------------------------------------------------ remaining, limit 0
\* C39: for every limit >= 0 a call that is allowed returns a remaining
\* between 0 and limit - 1, a call that is denied returns remaining 0, and
\* with limit 0 no call is allowed.
C39_RemainingWithinBounds ==
  /\ lastCall.allowed => (0 <= lastCall.remaining /\ lastCall.remaining <= rlLimit - 1)
  /\ ~lastCall.allowed => lastCall.remaining = 0
  /\ rlLimit = 0 => ~lastCall.allowed

\* ------------------------------------------------------- the stored count
\* C40: with a limit of at least 1 the count stored under rate_limit:<id>,
\* while the key exists, is between 1 and the limit, however checkRateLimit
\* calls (split at their await) and resetRateLimit calls interleave.
C40_StoredCountWithinLimit ==
  ~isNull(rateKeys, rateKey) =>
    (1 <= getKey(rateKeys, rateKey) /\ getKey(rateKeys, rateKey) <= rlLimit)

\* a call that read the count before the counter was reset or expired wrote
\* after it: the counter holds the limit although one call was admitted
\* since
C40_Witness ==
  /\ rlLimit >= 2
  /\ ~isNull(rateKeys, rateKey)
  /\ getKey(rateKeys, rateKey) = rlLimit
  /\ admitted = 1

====
